---- MODULE Spec2Model ----
(***************************************************************************)
(* Truck-dump waiting-time optimiser: the deterministic multi-server       *)
(* queue (queue_simulation.py) and the arrival builder, zone aggregation   *)
(* and per-route departure-time search (departure_optimizer.py), and the   *)
(* sequential search of RealOptimizer (real_optimizer.py).                 *)
(*                                                                         *)
(* Times are integers counted in units of 1/300 hour (12 s), so that one   *)
(* minute is 5 units, the 0.02 h truck spacing is 6 units and the 0.10 h   *)
(* default service time is 30 units.  Python floats are modelled as exact  *)
(* rationals [n, d] in lowest terms; rounding error is not modelled.       *)
(* Strings the code parses (departure times, line ranges) are sequences    *)
(* of one-character strings; names used only as dictionary keys are        *)
(* strings.                                                                *)
(***************************************************************************)
EXTENDS Integers, Sequences, FiniteSets, TLC

VARIABLES
    \* ---- multi_server_queue(arrivals, num_servers), one loop turn per step
    arrivals,            \* the argument: list of <<arrival_time, service_time>>
    num_servers,         \* the argument
    server_free_times,   \* local list, one entry per server
    total_wait,          \* local accumulator (units)
    q_i,                 \* number of events already processed
    q_pc,                \* "idle" | "loop" | "done"
    avg_wait_minutes,    \* returned average wait (rational minutes)
    end_time,            \* returned end time (units)
    q_log,               \* the locals of each turn of the running call, in turn order
    q_calls,             \* number of calls that have returned
    q_first,             \* what the first call returned
    \* ---- optimise_departure_times(contractor_configs, ..., candidate_times, lookup)
    contractor_configs,  \* the caller's configuration object (list of routes)
    candidate_times,     \* list of candidate departure-time strings
    empty_speed,
    loaded_speed,
    lookup,              \* RouteTimeLookup rows, or NoLookup
    pc,                  \* "idle" | "start" | "next_route" | "candidates" | "done"
    baseline_waits,      \* zone -> average wait of the unmodified configuration
    recommended,         \* list of [contractor, route, current, optimal]
    ri,                  \* index of the route being optimised
    ci,                  \* number of candidates already tested for route ri
    best_depart,
    best_total_wait,
    updated_config,      \* second-pass working copy
    optimised_waits,     \* zone -> average wait of updated_config
    \* ---- one call of a helper function: the arguments, then the result
    call_fn,             \* the function called
    call_pc,             \* "idle" | "call" | "done"
    dump_points,         \* config.FENI_DUMP_POINTS as loaded (zone -> sub-point -> lines)
    subpoint_name,       \* argument of get_server_count and _num_servers_for
    route_key,           \* <<parking, loading, dump>> given to compute_route_times
    truck_spacing,       \* build_arrival_events' spacing
    arrival_events,      \* build_arrival_events' events: sub-point -> list
    route_times,         \* compute_route_times' [raised, travel_time, service_time]
    server_count,        \* the server count returned
    call_raised,         \* the call ended in an exception
    subpoint_wait_map,   \* simulate_wait_times' subpoint_waits: sub-point -> minutes
    zone_waits,          \* simulate_wait_times' zone_waits: zone -> minutes
    queue_results,       \* simulate_queues' results: sub-point -> minutes
    \* ---- RealOptimizer.optimize_departure_times (real_optimizer.py), one candidate per step
    r_pc,                    \* "idle" | "start" | "next_route" | "candidates" | "done" | "raised"
    r_contractor_configs,    \* self.contractor_configs
    r_route_data,            \* self.time_processor.route_data
    r_baseline_results,      \* zone -> queue statistics of the configured times
    r_baseline_total_wait,
    r_routes_to_optimize,    \* the routes of baseline_details, in insertion order
    r_best_config,
    r_best_total_wait,
    r_k,                     \* number of routes begun
    r_ci,                    \* number of candidates of time_window passed for route r_k
    r_best_time_for_route,
    r_best_wait_for_route,
    r_optimization_log,
    r_final_results,
    \* ---- run_real_optimization and its caller run_waiting_time_optimization (app.py)
    r_result,                \* the dictionary run_real_optimization returned
    r_caller                 \* "waiting" | "results" | "fallback"

qvars == <<arrivals, num_servers, server_free_times, total_wait, q_i, q_pc,
           avg_wait_minutes, end_time, q_log, q_calls, q_first>>
ovars == <<contractor_configs, candidate_times, empty_speed, loaded_speed, lookup,
           pc, baseline_waits, recommended, ri, ci, best_depart, best_total_wait,
           updated_config, optimised_waits>>
hvars == <<call_fn, call_pc, dump_points, subpoint_name, route_key, truck_spacing,
           arrival_events, route_times, server_count, call_raised, subpoint_wait_map,
           zone_waits, queue_results>>
rvars == <<r_pc, r_contractor_configs, r_route_data, r_baseline_results,
           r_baseline_total_wait, r_routes_to_optimize, r_best_config, r_best_total_wait,
           r_k, r_ci, r_best_time_for_route, r_best_wait_for_route, r_optimization_log,
           r_final_results, r_result, r_caller>>
vars == <<qvars, ovars, hvars, rvars>>

None == "None"

\* ------------------------------------------------------------------ numbers

UnitsPerHour == 60 * 5

Max(a, b) == IF a >= b THEN a ELSE b

Abs(x) == IF x < 0 THEN 0 - x ELSE x

RECURSIVE GCD(_, _)
GCD(a, b) == IF b = 0 THEN a ELSE GCD(b, a % b)

\* the float n/d (d > 0), kept in lowest terms so that equal values are equal records
Rat(n, d) ==
    LET g == GCD(Abs(n), d)
    IN  [n |-> n \div g, d |-> d \div g]

RatZero == Rat(0, 1)

RatAdd(a, b) == Rat(a.n * b.d + b.n * a.d, a.d * b.d)

RatMulInt(a, k) == Rat(a.n * k, a.d)

RatDiv(a, b) == Rat(a.n * b.d, a.d * b.n)

RatSub(a, b) == Rat(a.n * b.d - b.n * a.d, a.d * b.d)

RatLt(a, b) == a.n * b.d < b.n * a.d

RatLe(a, b) == a.n * b.d <= b.n * a.d

RatMax(a, b) == IF RatLe(b, a) THEN a ELSE b

\* float('inf'): compares greater than every finite value
Inf == [n |-> 1, d |-> 0]

\* ------------------------------------------------------------------ strings

Digits == {"0", "1", "2", "3", "4", "5", "6", "7", "8", "9"}

DigitVal(c) ==
    CASE c = "0" -> 0 [] c = "1" -> 1 [] c = "2" -> 2 [] c = "3" -> 3 [] c = "4" -> 4
      [] c = "5" -> 5 [] c = "6" -> 6 [] c = "7" -> 7 [] c = "8" -> 8 [] c = "9" -> 9

\* str.split(sep): the list of parts between the separators
RECURSIVE SplitFrom(_, _, _, _)
SplitFrom(s, sep, i, cur) ==
    IF i > Len(s) THEN <<cur>>
    ELSE IF s[i] = sep THEN <<cur>> \o SplitFrom(s, sep, i + 1, <<>>)
    ELSE SplitFrom(s, sep, i + 1, Append(cur, s[i]))

Split(s, sep) == SplitFrom(s, sep, 1, <<>>)

\* int(part) succeeds (for the alphabet modelled: digits, ':', '-', letters)
IsInt(part) == Len(part) > 0 /\ \A i \in 1..Len(part) : part[i] \in Digits

RECURSIVE IntOfFrom(_, _, _)
IntOfFrom(part, i, acc) ==
    IF i > Len(part) THEN acc ELSE IntOfFrom(part, i + 1, acc * 10 + DigitVal(part[i]))

IntOf(part) == IntOfFrom(part, 1, 0)

\* ------------------------------------------------------------------ config.py

\* FENI_DUMP_POINTS: zone -> sub-point -> line range.  Three of the repository's
\* thirty-four sub-points are kept (two of zone KM 0, one of zone KM 15); every one
\* of the thirty-four has a two-line range.
KM0 == "FENI KM 0"
KM15 == "FENI KM 15"
SubA12 == "FENI A (LINE 1-2)"
SubA34 == "FENI A (LINE 3-4)"
SubU1 == "FENI U1 (LINE 65-66)"

FENI_DUMP_POINTS ==
    <<[zone |-> KM0,
       sub_points |-> <<[name |-> SubA12, lines |-> <<"1", "-", "2">>],
                        [name |-> SubA34, lines |-> <<"3", "-", "4">>]>>],
      [zone |-> KM15,
       sub_points |-> <<[name |-> SubU1, lines |-> <<"6", "5", "-", "6", "6">>]>>]>>

SubPointsOf(z) == {FENI_DUMP_POINTS[z].sub_points[k].name :
                     k \in 1..Len(FENI_DUMP_POINTS[z].sub_points)}

\* get_main_feni_from_sub_point: the first zone listing the name, else None
get_main_feni_from_sub_point(sub_point_name) ==
    IF \E z \in 1..Len(FENI_DUMP_POINTS) : sub_point_name \in SubPointsOf(z)
    THEN LET z == CHOOSE z \in 1..Len(FENI_DUMP_POINTS) :
                     /\ sub_point_name \in SubPointsOf(z)
                     /\ \A y \in 1..(z - 1) : sub_point_name \notin SubPointsOf(y)
         IN  FENI_DUMP_POINTS[z].zone
    ELSE None

\* ------------------------------------------------------------------ route times

REFERENCE_SPEED == 25
default_wait_loading == 30
default_spot_loading == 6
default_loading_time == 75
default_loaded_travel_distance == 40
default_empty_travel_distance == 40
default_service_time == 30
DefaultSpacing == 6

\* a lookup built from no data frame (lookup.df is None)
NoLookup == [present |-> FALSE, rows |-> <<>>]

\* a cell of a timing-table row: a number (units), NaN, or a column the row lacks
Cell(v) == [kind |-> "num", v |-> v]
NaN == [kind |-> "nan", v |-> 0]
Absent == [kind |-> "absent", v |-> 0]

\* variant: the names are compared as written
StripUpperSkipped(s) == s

\* str.strip().upper() on the location names modelled
StripUpper(s) ==
    CASE s = "tf" -> "TF"
      [] s = " TF " -> "TF"
      [] s = "cp4" -> "CP4"
      [] OTHER -> s

\* RouteTimeLookup.get_row: the indices of the rows whose trimmed upper-cased triple
\* equals the query's; __init__ keeps the last row of a key listed twice
RowHits(lk, parking, loading, dump) ==
    {k \in 1..Len(lk.rows) :
        /\ StripUpper(lk.rows[k].parking) = StripUpper(parking)
        /\ StripUpper(lk.rows[k].loading) = StripUpper(loading)
        /\ StripUpper(lk.rows[k].dump) = StripUpper(dump)}

get_row(lk, parking, loading, dump) ==
    LET hits == RowHits(lk, parking, loading, dump)
    IN  lk.rows[CHOOSE k \in hits : \A j \in hits : j <= k]

\* row.get(column, default), then "float(v) if pd.notna(v) else default"
CellOr(c, default) == IF c.kind = "num" THEN c.v ELSE default

\* compute_route_times: [raised, travel_time, service_time] in units.  The speeds
\* and stored times drawn by the specifications divide exactly.
compute_route_times(parking, loading, dump, e_speed, l_speed, lk) ==
    LET found == lk.present /\ RowHits(lk, parking, loading, dump) # {}
        def_pl == (default_empty_travel_distance * UnitsPerHour) \div e_speed
        def_ld == (default_loaded_travel_distance * UnitsPerHour) \div l_speed
    IN  IF ~found
        THEN [raised |-> FALSE,
              travel_time |-> def_pl + default_wait_loading + default_spot_loading
                              + default_loading_time + def_ld,
              service_time |-> default_service_time]
        ELSE LET row == get_row(lk, parking, loading, dump)
             IN  IF row.loaded_travel.kind = "absent"
                 THEN [raised |-> TRUE, travel_time |-> 0, service_time |-> 0]
                 ELSE LET travel_parking_loading ==
                              IF row.travel_parking_loading.kind = "num"
                              THEN (row.travel_parking_loading.v * REFERENCE_SPEED)
                                   \div e_speed
                              ELSE def_pl
                          wait_loading == CellOr(row.wait_loading, default_wait_loading)
                          spot_loading == CellOr(row.spot_loading, default_spot_loading)
                          loading_time == CellOr(row.loading_time, default_loading_time)
                          loaded_travel ==
                              IF row.loaded_travel.kind = "num"
                              THEN (row.loaded_travel.v * REFERENCE_SPEED) \div l_speed
                              ELSE def_ld
                          dumping == CellOr(row.dumping, default_service_time)
                          dump_spot == CellOr(row.dump_spot, 0)
                      IN  [raised |-> FALSE,
                           travel_time |-> travel_parking_loading + wait_loading
                                           + spot_loading + loading_time + loaded_travel,
                           service_time |-> dumping + dump_spot]

\* ------------------------------------------------------------------ queue_simulation.py

\* the parse of get_server_count, inside "try ... except Exception": two numeral
\* parts give max(1, end - start + 1); anything else falls through to other
GuardedLineCount(line_str, other) ==
    LET parts == Split(line_str, "-")
    IN  IF Len(parts) = 2 /\ IsInt(parts[1]) /\ IsInt(parts[2])
        THEN Max(1, IntOf(parts[2]) - IntOf(parts[1]) + 1)
        ELSE other

\* "total += ..." over the sub-points of one zone, a malformed range adding 1
RECURSIVE SumGuarded(_, _)
SumGuarded(sub_points, k) ==
    IF k > Len(sub_points) THEN 0
    ELSE GuardedLineCount(sub_points[k].lines, 1) + SumGuarded(sub_points, k + 1)

\* get_server_count: 2 for an empty name; for a listed sub-point its guarded line
\* count, else 1; then the zone of the name (get_main_feni_from_sub_point knows
\* sub-point names only) and the sum over that zone; else the fallback 2
get_server_count(name, dp) ==
    IF name = "" THEN 2
    ELSE IF \E z \in 1..Len(dp) : \E k \in 1..Len(dp[z].sub_points) : dp[z].sub_points[k].name = name
    THEN LET z == CHOOSE z \in 1..Len(dp) :
                     /\ \E k \in 1..Len(dp[z].sub_points) : dp[z].sub_points[k].name = name
                     /\ \A y \in 1..(z - 1) :
                            \A k \in 1..Len(dp[y].sub_points) : dp[y].sub_points[k].name # name
             k == CHOOSE k \in 1..Len(dp[z].sub_points) : dp[z].sub_points[k].name = name
         IN  GuardedLineCount(dp[z].sub_points[k].lines, 1)
    ELSE LET main_feni == get_main_feni_from_sub_point(name)
         IN  IF main_feni # None /\ \E z \in 1..Len(dp) : dp[z].zone = main_feni
             THEN LET z == CHOOSE z \in 1..Len(dp) : dp[z].zone = main_feni
                  IN  Max(1, SumGuarded(dp[z].sub_points, 1))
             ELSE 2

\* variant: max(range(n), key=...), the first index holding a maximal entry
EarliestFreeTakesLatest(free) ==
    CHOOSE i \in 1..Len(free) :
        \A j \in 1..Len(free) : free[i] > free[j] \/ (free[i] = free[j] /\ i <= j)

\* min(range(n), key=lambda i: free[i]): the first index holding a minimal entry
EarliestFree(free) ==
    CHOOSE i \in 1..Len(free) :
        \A j \in 1..Len(free) : free[i] < free[j] \/ (free[i] = free[j] /\ i <= j)

\* variant: wait = abs(server_free_times[idx] - arrival_time)
WaitForAbs(free_time, arrival_time) == Abs(free_time - arrival_time)

\* wait = max(0.0, server_free_times[idx] - arrival_time)
WaitFor(free_time, arrival_time) == Max(0, free_time - arrival_time)

\* one turn of multi_server_queue's loop on the locals st = [free, total_wait]
QueueLoopBody(st, ev) ==
    LET idx == EarliestFree(st.free)
        wait == WaitFor(st.free[idx], ev[1])
        start_service == ev[1] + wait
    IN  [free |-> [st.free EXCEPT ![idx] = start_service + ev[2]],
         total_wait |-> st.total_wait + wait]

RECURSIVE QueueRun(_, _, _)
QueueRun(arr, i, st) ==
    IF i > Len(arr) THEN st ELSE QueueRun(arr, i + 1, QueueLoopBody(st, arr[i]))

\* variant: server_free_times = [0.0], one server whatever num_servers is
InitialFreeSingle(k) == [s \in 1..1 |-> 0]

\* variant: the free times are module state, kept from one call to the next
InitialFreeKept(k) == IF q_calls > 0 THEN server_free_times ELSE [s \in 1..Max(1, k) |-> 0]

\* server_free_times = [0.0] * max(1, num_servers)
InitialFree(k) == [s \in 1..Max(1, k) |-> 0]

\* variant: total_wait / len(arrivals), the hours not converted to minutes
AvgHours(total, n) == Rat(total, n * UnitsPerHour)

\* (total_wait / len(arrivals)) * 60.0, total_wait being hours
AvgMinutes(total, n) == Rat(total * 60, n * UnitsPerHour)

MaxOf(free) == CHOOSE m \in {free[s] : s \in 1..Len(free)} :
                   \A s \in 1..Len(free) : free[s] <= m

\* multi_server_queue as a function of its arguments
multi_server_queue(arr, k) ==
    IF arr = <<>>
    THEN [avg_wait_minutes |-> RatZero, end_time |-> 0]
    ELSE LET st == QueueRun(arr, 1, [free |-> InitialFree(k), total_wait |-> 0])
         IN  [avg_wait_minutes |-> AvgMinutes(st.total_wait, Len(arr)),
              end_time |-> MaxOf(st.free)]

\* ------------------------------------------------------------------ build_arrival_events

\* "int(parts[0]) + int(parts[1]) / 60.0 if len(parts) == 2 else 7.0"; int() raises
\* on a part that is not a number
ParseDeparture(s) ==
    LET parts == Split(s, ":")
    IN  IF Len(parts) = 2
        THEN IF IsInt(parts[1]) /\ IsInt(parts[2])
             THEN [raised |-> FALSE,
                   hour |-> IntOf(parts[1]) * UnitsPerHour
                            + IntOf(parts[2]) * (UnitsPerHour \div 60)]
             ELSE [raised |-> TRUE, hour |-> 0]
        ELSE [raised |-> FALSE, hour |-> 7 * UnitsPerHour]

\* variant: without the "if main_feni is None: continue" test
EligibleAnyDump(cfg, e_speed, l_speed, lk) ==
    /\ cfg.dumping_location # ""
    /\ cfg.loading_location # ""
    /\ cfg.number_of_trucks > 0
    /\ ~ParseDeparture(cfg.departure_time).raised
    /\ ~compute_route_times(cfg.parking_location, cfg.loading_location,
                            cfg.dumping_location, e_speed, l_speed, lk).raised

\* the route passes the two "continue" tests and its try block raises nothing
Eligible(cfg, e_speed, l_speed, lk) ==
    /\ cfg.dumping_location # ""
    /\ cfg.loading_location # ""
    /\ cfg.number_of_trucks > 0
    /\ get_main_feni_from_sub_point(cfg.dumping_location) # None
    /\ ~ParseDeparture(cfg.departure_time).raised
    /\ ~compute_route_times(cfg.parking_location, cfg.loading_location,
                            cfg.dumping_location, e_speed, l_speed, lk).raised

\* the events one route appends, truck 0 first
RouteEvents(cfg, e_speed, l_speed, lk, spacing) ==
    IF ~Eligible(cfg, e_speed, l_speed, lk) THEN <<>>
    ELSE LET depart_hour == ParseDeparture(cfg.departure_time).hour
             t == compute_route_times(cfg.parking_location, cfg.loading_location,
                                      cfg.dumping_location, e_speed, l_speed, lk)
         IN  [i \in 1..cfg.number_of_trucks |->
                 <<depart_hour + t.travel_time + (i - 1) * spacing, t.service_time>>]

\* events[sp] before the sort: the routes' events in iteration order
RECURSIVE AppendedEvents(_, _, _, _, _, _, _)
AppendedEvents(cfgs, r, sp, e_speed, l_speed, lk, spacing) ==
    IF r > Len(cfgs) THEN <<>>
    ELSE (IF cfgs[r].dumping_location = sp
          THEN RouteEvents(cfgs[r], e_speed, l_speed, lk, spacing)
          ELSE <<>>)
         \o AppendedEvents(cfgs, r + 1, sp, e_speed, l_speed, lk, spacing)

\* list.sort(key=lambda x: x[0]): stable, ascending by arrival time
InsertByArrival(sorted, ev) ==
    LET before == {k \in 1..Len(sorted) : sorted[k][1] <= ev[1]}
        n == Cardinality(before)
    IN  SubSeq(sorted, 1, n) \o <<ev>> \o SubSeq(sorted, n + 1, Len(sorted))

RECURSIVE SortFrom(_, _, _)
SortFrom(list, i, acc) ==
    IF i > Len(list) THEN acc ELSE SortFrom(list, i + 1, InsertByArrival(acc, list[i]))

\* variant: the lists are returned in the order the routes appended them
SortByArrivalSkipped(list) == list

SortByArrival(list) == SortFrom(list, 1, <<>>)

\* build_arrival_events: sub-point -> sorted list of <<arrival_time, service_time>>
build_arrival_events(cfgs, e_speed, l_speed, lk, spacing) ==
    LET keys == {cfgs[r].dumping_location :
                   r \in {q \in 1..Len(cfgs) : Eligible(cfgs[q], e_speed, l_speed, lk)}}
    IN  [sp \in keys |->
            SortByArrival(AppendedEvents(cfgs, 1, sp, e_speed, l_speed, lk, spacing))]

\* ------------------------------------------------------------------ simulate_wait_times

\* "lo, hi = map(int, lines.split('-'))" then max(1, hi - lo + 1): the unpacking
\* raises unless the split gives exactly two parts, int() unless both are numerals
LineCount(lines) ==
    LET parts == Split(lines, "-")
    IN  IF Len(parts) = 2 /\ IsInt(parts[1]) /\ IsInt(parts[2])
        THEN [raised |-> FALSE, count |-> Max(1, IntOf(parts[2]) - IntOf(parts[1]) + 1)]
        ELSE [raised |-> TRUE, count |-> 0]

\* cfg['sub_points'][sub_point]['lines'] in the hierarchy dp; dp keeps the zones and
\* sub-point names of FENI_DUMP_POINTS
LinesOf(sub_point, dp) ==
    LET z == CHOOSE z \in 1..Len(dp) : sub_point \in SubPointsOf(z)
        k == CHOOSE k \in 1..Len(dp[z].sub_points) : dp[z].sub_points[k].name = sub_point
    IN  dp[z].sub_points[k].lines

\* _num_servers_for: a name of no zone has one server; a listed sub-point has its
\* line count (the aggregate branch is reached by no name, a name with a zone being
\* a listed sub-point)
_num_servers_for(sub_point, dp) ==
    IF get_main_feni_from_sub_point(sub_point) = None THEN [raised |-> FALSE, count |-> 1]
    ELSE LineCount(LinesOf(sub_point, dp))

\* one turn of the inline loop: start = max(arrival_time, free_times[idx])
InlineLoopBody(st, ev) ==
    LET idx == EarliestFree(st.free)
        start == Max(ev[1], st.free[idx])
    IN  [free |-> [st.free EXCEPT ![idx] = start + ev[2]],
         total_wait |-> st.total_wait + (start - ev[1])]

RECURSIVE InlineRun(_, _, _)
InlineRun(arr, i, st) ==
    IF i > Len(arr) THEN st ELSE InlineRun(arr, i + 1, InlineLoopBody(st, arr[i]))

\* subpoint_waits[subpoint]
SubpointWait(arr, servers) ==
    IF arr = <<>> THEN RatZero
    ELSE AvgMinutes(InlineRun(arr, 1, [free |-> [s \in 1..servers |-> 0],
                                       total_wait |-> 0]).total_wait,
                    Len(arr))

subpoint_waits(events) ==
    [sp \in DOMAIN events |-> SubpointWait(events[sp], _num_servers_for(sp, FENI_DUMP_POINTS).count)]

\* trucks_per_subpoint.get(sp, 0): the trucks of every route naming sp, eligible or not
RECURSIVE TrucksFrom(_, _, _)
TrucksFrom(cfgs, r, sp) ==
    IF r > Len(cfgs) THEN 0
    ELSE (IF cfgs[r].dumping_location # "" /\ cfgs[r].dumping_location = sp
          THEN cfgs[r].number_of_trucks ELSE 0)
         + TrucksFrom(cfgs, r + 1, sp)

trucks_per_subpoint(cfgs, sp) == TrucksFrom(cfgs, 1, sp)

\* variant: every sub-point weighs the same (the unweighted mean)
SubpointWeightOne(cfgs, sp) == 1

\* the weight a sub-point's average gets in its zone's totals
SubpointWeight(cfgs, sp) == trucks_per_subpoint(cfgs, sp)

RECURSIVE ZoneWaitTotal(_, _, _)
ZoneWaitTotal(waits, cfgs, sps) ==
    IF sps = {} THEN RatZero
    ELSE LET sp == CHOOSE x \in sps : TRUE
         IN  RatAdd(RatMulInt(waits[sp], SubpointWeight(cfgs, sp)),
                    ZoneWaitTotal(waits, cfgs, sps \ {sp}))

RECURSIVE ZoneTruckTotal(_, _)
ZoneTruckTotal(cfgs, sps) ==
    IF sps = {} THEN 0
    ELSE LET sp == CHOOSE x \in sps : TRUE
         IN  SubpointWeight(cfgs, sp) + ZoneTruckTotal(cfgs, sps \ {sp})

\* variant: the division without the "> 0" test; the ZeroDivisionError is the value Inf
ZoneAverageUnguarded(waits, cfgs, zone) ==
    LET sps == {sp \in DOMAIN waits : get_main_feni_from_sub_point(sp) = zone}
        trucks == ZoneTruckTotal(cfgs, sps)
    IN  IF trucks = 0 THEN Inf
        ELSE RatDiv(ZoneWaitTotal(waits, cfgs, sps), Rat(trucks, 1))

\* zone_waits[zone]: totals over the sub-points that have a simulated average
ZoneAverage(waits, cfgs, zone) ==
    LET sps == {sp \in DOMAIN waits : get_main_feni_from_sub_point(sp) = zone}
        trucks == ZoneTruckTotal(cfgs, sps)
    IN  IF trucks > 0
        THEN RatDiv(ZoneWaitTotal(waits, cfgs, sps), Rat(trucks, 1))
        ELSE RatZero

\* simulate_wait_times: zone -> average wait in minutes, for the two zones of
\* zone_wait_totals
simulate_wait_times(cfgs, e_speed, l_speed, lk, spacing) ==
    LET waits == subpoint_waits(build_arrival_events(cfgs, e_speed, l_speed, lk, spacing))
    IN  [zone \in {KM0, KM15} |-> ZoneAverage(waits, cfgs, zone)]

\* queue_simulation.simulate_subpoint_queues, to which simulate_queues delegates: an
\* empty list gives 0.0, else the average of multi_server_queue with the servers of
\* get_server_count
simulate_subpoint_queues(events, dp) ==
    [sp \in DOMAIN events |->
        IF events[sp] = <<>> THEN RatZero
        ELSE multi_server_queue(events[sp], get_server_count(sp, dp)).avg_wait_minutes]

simulate_queues(events, dp) == simulate_subpoint_queues(events, dp)

\* ------------------------------------------------------------------ evaluate_departure_for_route

\* variant: the overwrite reaches every route of the configuration
SetDepartureEveryRoute(cfgs, contractor, route, time) ==
    [r \in 1..Len(cfgs) |-> [cfgs[r] EXCEPT !.departure_time = time]]

\* config[contractor][route]['departure_time'] = time, when the route exists
SetDeparture(cfgs, contractor, route, time) ==
    [r \in 1..Len(cfgs) |->
        IF cfgs[r].contractor = contractor /\ cfgs[r].parking_location = route
        THEN [cfgs[r] EXCEPT !.departure_time = time]
        ELSE cfgs[r]]

\* trucks_zone: the trucks of every route whose dump location maps to the zone
RECURSIVE TrucksZoneFrom(_, _, _)
TrucksZoneFrom(cfgs, r, zone) ==
    IF r > Len(cfgs) THEN 0
    ELSE (IF get_main_feni_from_sub_point(cfgs[r].dumping_location) = zone
          THEN cfgs[r].number_of_trucks ELSE 0)
         + TrucksZoneFrom(cfgs, r + 1, zone)

\* total_wait_minutes of a configuration: sum over the zones of average x trucks
TotalWait(config, e_speed, l_speed, lk, spacing) ==
    LET wait_times == simulate_wait_times(config, e_speed, l_speed, lk, spacing)
    IN  RatAdd(RatMulInt(wait_times[KM0], TrucksZoneFrom(config, 1, KM0)),
               RatMulInt(wait_times[KM15], TrucksZoneFrom(config, 1, KM15)))

\* variant: the overwrite misses the route, the copy is simulated as it was
evaluate_departure_unmodified(baseline_configs, contractor, route, candidate_time, e_speed, l_speed, lk, spacing) ==
    TotalWait(baseline_configs, e_speed, l_speed, lk, spacing)

\* evaluate_departure_for_route: the total of a deep copy of baseline_configs with
\* the one route's departure_time overwritten
evaluate_departure_for_route(baseline_configs, contractor, route, candidate_time, e_speed, l_speed, lk, spacing) ==
    TotalWait(SetDeparture(baseline_configs, contractor, route, candidate_time),
              e_speed, l_speed, lk, spacing)

\* variant: no deep copy, the overwrite lands in the caller's object
CallerConfigAliased(cfgs, contractor, route, candidate_time) ==
    SetDeparture(cfgs, contractor, route, candidate_time)

\* the caller's contractor_configs after evaluate_departure_for_route returns: the
\* overwrite went to the deep copy
CallerConfigAfterEvaluate(cfgs, contractor, route, candidate_time) == cfgs

\* ------------------------------------------------------------------ inputs

MaxTrucks == 3
MaxLen == 3
MaxArrival == 2
MaxService == 2
MaxServers == 2
MaxCalls == 2

T0600 == <<"6", ":", "0", "0">>
T0630 == <<"6", ":", "3", "0">>
T0700 == <<"7", ":", "0", "0">>

\* (loading_location, dumping_location) of a route: three well-formed kinds, one
\* without loading location, one without dump location, one naming a zone
RouteKinds ==
    {<<"CP4", SubA12>>, <<"CP4", SubA34>>, <<"CP4", SubU1>>,
     <<"", SubA12>>, <<"CP4", "">>, <<"CP4", KM0>>}

WellFormedKinds == {<<"CP4", SubA12>>, <<"CP4", SubA34>>, <<"CP4", SubU1>>}

RouteChoices(contractor, parking, kinds, times) ==
    {[contractor |-> contractor, parking_location |-> parking,
      loading_location |-> k[1], dumping_location |-> k[2],
      departure_time |-> t, number_of_trucks |-> n] :
        k \in kinds, t \in times, n \in 0..MaxTrucks}

\* configurations of zero, one or two routes, in dictionary iteration order: the
\* first route of any kind leaving at 6:00 or 7:00, the second well-formed at 7:00
FirstRoutes == RouteChoices("HJS", "TF", RouteKinds, {T0600, T0700})

SecondRoutes == RouteChoices("GMG", "KR", WellFormedKinds, {T0700})

\* three routes of one zone at 7:00: two name the same sub-point, the first of them
\* with or without a loading location, the third names another sub-point
ThreeRouteConfigs ==
    {<<[contractor |-> "HJS", parking_location |-> "TF", loading_location |-> l,
        dumping_location |-> SubA12, departure_time |-> T0700,
        number_of_trucks |-> MaxTrucks],
       [contractor |-> "GMG", parking_location |-> "KR", loading_location |-> "CP4",
        dumping_location |-> SubA12, departure_time |-> T0700,
        number_of_trucks |-> MaxTrucks],
       [contractor |-> "RIM", parking_location |-> "P3", loading_location |-> "CP4",
        dumping_location |-> SubA34, departure_time |-> T0700,
        number_of_trucks |-> 1]>> : l \in {"", "CP4"}}

Configs ==
    {<<>>}
    \cup {<<a>> : a \in FirstRoutes}
    \cup {<<a, b>> : a \in FirstRoutes, b \in SecondRoutes}
    \cup ThreeRouteConfigs

CandidateLists == {<<>>, <<T0630>>, <<T0600, T0700>>, <<T0630, T0600, T0700>>}

ZeroWaits == [zone \in {KM0, KM15} |-> RatZero]

\* sorted lists of at most MaxLen events
Events == (0..MaxArrival) \X (0..MaxService)

IsSorted(list) == \A i \in 1..(Len(list) - 1) : list[i][1] <= list[i + 1][1]

ArrivalLists ==
    {l \in UNION {[1..n -> Events] : n \in 0..MaxLen} : IsSorted(l)}

\* two trucks arriving at 7.00 h and 7.02 h, each served in 0.10 h
TwoTruckScenario == <<<<7 * UnitsPerHour, 30>>, <<7 * UnitsPerHour + 6, 30>>>>

\* departure_time strings: 7:00, 7:01, one without colon, one of three parts, two
\* whose hour or minute is no numeral
T0701 == <<"7", ":", "0", "1">>
NoColon == <<"7">>
ThreeParts == <<"7", ":", "0", ":", "0">>
HourNotNumeric == <<"x", ":", "0", "0">>
MinuteNotNumeric == <<"7", ":", "x", "x">>

DepartureStrings == {T0700, T0701, NoColon, ThreeParts, HourNotNumeric, MinuteNotNumeric}

\* configurations given to build_arrival_events: the first route of any kind, with
\* any departure string and -1..MaxTrucks trucks; the second well-formed
BuildFirstRoutes ==
    {[contractor |-> "HJS", parking_location |-> "TF",
      loading_location |-> k[1], dumping_location |-> k[2],
      departure_time |-> t, number_of_trucks |-> n] :
        k \in RouteKinds, t \in DepartureStrings, n \in (0 - 1)..MaxTrucks}

BuildSecondRoutes ==
    {[contractor |-> "GMG", parking_location |-> "KR",
      loading_location |-> k[1], dumping_location |-> k[2],
      departure_time |-> t, number_of_trucks |-> n] :
        k \in WellFormedKinds, t \in {T0700, T0701}, n \in 1..MaxTrucks}

BuildConfigs ==
    {<<>>}
    \cup {<<a>> : a \in BuildFirstRoutes}
    \cup {<<a, b>> : a \in BuildFirstRoutes, b \in BuildSecondRoutes}

\* configurations given to simulate_wait_times: two well-formed routes, the first
\* leaving at 6:00 or 7:00, the second at 7:00
SimulateConfigs ==
    {<<a, b>> : a \in RouteChoices("HJS", "TF", WellFormedKinds, {T0600, T0700}),
                b \in RouteChoices("GMG", "KR", WellFormedKinds, {T0700})}

\* rows of the timing table under one key: each column holds a number, NaN, or is
\* missing from the row
StoredCells(v) == {Cell(v), NaN, Absent}

TimingRows(parking, loading, dump) ==
    [parking : {parking}, loading : {loading}, dump : {dump},
     travel_parking_loading : StoredCells(50), wait_loading : StoredCells(20),
     spot_loading : StoredCells(4), loading_time : StoredCells(60),
     loaded_travel : StoredCells(100), dumping : StoredCells(20),
     dump_spot : StoredCells(2)]

FullRow(parking, loading, dump, v) ==
    [parking |-> parking, loading |-> loading, dump |-> dump,
     travel_parking_loading |-> Cell(v), wait_loading |-> Cell(v),
     spot_loading |-> Cell(v), loading_time |-> Cell(v),
     loaded_travel |-> Cell(v), dumping |-> Cell(v), dump_spot |-> Cell(v)]

Table(rows) == [present |-> TRUE, rows |-> rows]

\* no data frame; one row under TF / CP4 / sub-point A; the key written in lower case;
\* the key listed twice; a row of another parking location; rows of zeros
LookupTables ==
    {NoLookup}
    \cup {Table(<<r>>) : r \in TimingRows("TF", "CP4", SubA12)}
    \cup {Table(<<FullRow("tf", "cp4", SubA12, 10)>>),
          Table(<<FullRow("TF", "CP4", SubA12, 10), FullRow(" TF ", "CP4", SubA12, 20)>>),
          Table(<<FullRow("KR", "CP4", SubA12, 10)>>),
          Table(<<FullRow("TF", "CP4", SubA12, 0)>>)}

RouteKeys == {<<"TF", "CP4", SubA12>>, <<" TF ", "cp4", SubA12>>, <<"KR", "CP4", SubA12>>}

\* <<empty_speed, loaded_speed>> in km/h
SpeedPairs == {<<REFERENCE_SPEED, REFERENCE_SPEED>>, <<2 * REFERENCE_SPEED, REFERENCE_SPEED>>,
               <<REFERENCE_SPEED, 2 * REFERENCE_SPEED>>}

\* the tables given to build_arrival_events: none, a complete row for the first
\* route, a row for it that lacks the loaded-travel column
BuildLookups ==
    {NoLookup,
     Table(<<FullRow("TF", "CP4", SubA12, 10)>>),
     Table(<<[FullRow("TF", "CP4", SubA12, 10) EXCEPT !.loaded_travel = Absent]>>)}

\* the tables given to simulate_wait_times: none, or a row for each route to sub-point
\* A with equal travel times and dumping times of 20 and 50 units
SimulateLookups ==
    {NoLookup,
     Table(<<FullRow("TF", "CP4", SubA12, 10),
             [FullRow("KR", "CP4", SubA12, 10) EXCEPT !.dumping = Cell(40)]>>)}

\* 'lines' strings: two well-formed, hi < lo, a letter, an empty part, no dash, three
\* parts, empty
LineStrings ==
    {<<"1", "-", "2">>, <<"3", "-", "3">>, <<"2", "-", "1">>, <<"a", "-", "2">>,
     <<"1", "-">>, <<"1", "2">>, <<"1", "-", "2", "-", "3">>, <<>>}

\* FENI_DUMP_POINTS with the ranges of sub-point A (LINE 1-2) and of U1 redrawn
Hierarchies ==
    {[FENI_DUMP_POINTS EXCEPT ![1].sub_points[1].lines = l, ![2].sub_points[1].lines = m] :
        l \in LineStrings, m \in LineStrings}

ServerNames == {"", SubA12, SubA34, SubU1, KM0, KM15, "STOCKPILE"}

\* ------------------------------------------------------------------ real_optimizer.py

\* Times of real_optimizer.py are counted in units of 1/3000 hour, in which its
\* statistical averages (thousandths of an hour) and the minutes of a departure time
\* are both whole numbers.
RealUnitsPerHour == 60 * 50

RealKM0 == "FENI KM0"
RealKM15 == "FENI KM15"
RealZones == {RealKM0, RealKM15}

\* self.time_window
time_window ==
    <<<<"5", ":", "0", "0">>, <<"5", ":", "3", "0">>, T0600, T0630, T0700,
      <<"7", ":", "3", "0">>, <<"8", ":", "0", "0">>, <<"8", ":", "3", "0">>,
      <<"9", ":", "0", "0">>>>

\* self.min_gap_between_trucks = 0.02 h
min_gap_between_trucks == RealUnitsPerHour \div 50

\* MultiServerQueueSimulator.dump_servers, and the .get(dump_site, 1) on it
dump_servers(dump_site) ==
    CASE dump_site = RealKM0 -> 2
      [] dump_site = RealKM15 -> 3
      [] OTHER -> 1

\* str.upper() on the names modelled
Upper(s) ==
    CASE s = "tf" -> "TF"
      [] s = "cp4" -> "CP4"
      [] OTHER -> s

\* _get_fallback_times: 1.279, 0.359, 0.076, 2.592 and 0.082 hours
FallbackTimes ==
    [travel_parking_loading |-> 3837, waiting_for_loading |-> 1077, loading_time |-> 228,
     loaded_travel |-> 7776, dumping_time |-> 246]

\* the record _build_route_lookup stores for a row of empty cells: 1.0, 0.3, 0.08, 2.5
\* and 0.08 hours
EmptyRowTimes ==
    [travel_parking_loading |-> 3000, waiting_for_loading |-> 900, loading_time |-> 240,
     loaded_travel |-> 7500, dumping_time |-> 240]

\* get_route_times: the exact key, else the first key of the same contractor, else
\* the fallback; route_data lists [key, times] in insertion order
get_route_times(contractor, parking, loading, dumping, route_data) ==
    LET key == <<Upper(contractor), Upper(parking), Upper(loading), Upper(dumping)>>
        exact == {k \in 1..Len(route_data) : route_data[k].key = key}
        similar == {k \in 1..Len(route_data) : route_data[k].key[1] = Upper(contractor)}
    IN  IF exact # {} THEN route_data[CHOOSE k \in exact : TRUE].times
        ELSE IF similar # {}
             THEN route_data[CHOOSE k \in similar : \A j \in similar : k <= j].times
             ELSE FallbackTimes

\* "float(parts[0]) + float(parts[1]) / 60.0" in a try, 7.0 in the bare except
RealDepartureHour(departure_time_str) ==
    LET parts == Split(departure_time_str, ":")
    IN  IF Len(parts) >= 2 /\ IsInt(parts[1]) /\ IsInt(parts[2])
        THEN IntOf(parts[1]) * RealUnitsPerHour + IntOf(parts[2]) * (RealUnitsPerHour \div 60)
        ELSE 7 * RealUnitsPerHour

\* calculate_real_travel_time: the first truck's arrival at the dump and its service time
calculate_real_travel_time(contractor, parking, loading, dumping, departure_time_str, route_data) ==
    LET route_times_ == get_route_times(contractor, parking, loading, dumping, route_data)
        total_travel_time == route_times_.travel_parking_loading
                             + route_times_.waiting_for_loading
                             + route_times_.loading_time + route_times_.loaded_travel
    IN  [arrival_time |-> RealDepartureHour(departure_time_str) + total_travel_time,
         service_time |-> route_times_.dumping_time]

\* _get_main_dump_zone: the substring tests on the upper-cased name, for the names
\* modelled ('KM0', 'KM 0', 'LINE 1-2', 'LINE 3-4' name zone KM0; 'KM15', 'KM 15',
\* 'LINE 65-66' name zone KM15)
_get_main_dump_zone(dumping_location) ==
    CASE dumping_location \in {RealKM0, KM0, SubA12, SubA34} -> RealKM0
      [] dumping_location \in {RealKM15, KM15, SubU1} -> RealKM15
      [] OTHER -> None

\* a route simulate_current_system keeps: some trucks and a dump zone
RealKept(cfg) ==
    /\ cfg.number_of_trucks # 0
    /\ _get_main_dump_zone(cfg.dumping_location) # None

\* dump_arrivals[main_dump]: the staggered arrivals of the kept routes, in route order
RECURSIVE DumpArrivals(_, _, _, _)
DumpArrivals(config, r, main_dump, route_data) ==
    IF r > Len(config) THEN <<>>
    ELSE LET cfg == config[r]
             t == calculate_real_travel_time(cfg.contractor, cfg.parking_location,
                                             cfg.loading_location, cfg.dumping_location,
                                             cfg.departure_time, route_data)
         IN  (IF RealKept(cfg) /\ _get_main_dump_zone(cfg.dumping_location) = main_dump
              THEN [i \in 1..cfg.number_of_trucks |->
                       <<t.arrival_time + (i - 1) * min_gap_between_trucks, t.service_time>>]
              ELSE <<>>)
             \o DumpArrivals(config, r + 1, main_dump, route_data)

\* one turn of simulate_dump_queue's loop: service_start = max(arrival, free time of
\* the earliest server), wait_time = service_start - arrival_time
DumpQueueTurn(st, ev) ==
    LET earliest_server == EarliestFree(st.free)
        service_start == Max(ev[1], st.free[earliest_server])
    IN  [free |-> [st.free EXCEPT ![earliest_server] = service_start + ev[2]],
         total_wait_time |-> st.total_wait_time + (service_start - ev[1])]

RECURSIVE DumpQueueRun(_, _, _)
DumpQueueRun(arr, i, st) ==
    IF i > Len(arr) THEN st ELSE DumpQueueRun(arr, i + 1, DumpQueueTurn(st, arr[i]))

\* a zone without entry in a results dict
Missing == [present |-> FALSE, total_wait_time |-> 0, avg_wait_per_truck |-> RatZero]

NoResults == [z \in RealZones |-> Missing]

\* simulate_dump_queue: total_wait_time in units, avg_wait_per_truck in hours
simulate_dump_queue(arrivals_, num_servers_) ==
    IF arrivals_ = <<>>
    THEN [present |-> TRUE, total_wait_time |-> 0, avg_wait_per_truck |-> RatZero]
    ELSE LET sorted == SortByArrival(arrivals_)
             st == DumpQueueRun(sorted, 1, [free |-> [s \in 1..num_servers_ |-> 0],
                                            total_wait_time |-> 0])
         IN  [present |-> TRUE, total_wait_time |-> st.total_wait_time,
              avg_wait_per_truck |-> Rat(st.total_wait_time,
                                         Len(arrivals_) * RealUnitsPerHour)]

\* simulate_current_system: dump_results of the zones that received a kept route
simulate_current_system(config, route_data) ==
    [z \in RealZones |->
        IF \E r \in 1..Len(config) :
               RealKept(config[r]) /\ _get_main_dump_zone(config[r].dumping_location) = z
        THEN simulate_dump_queue(DumpArrivals(config, 1, z, route_data), dump_servers(z))
        ELSE Missing]

\* list(baseline_details.keys()): the kept routes, in insertion order
RECURSIVE KeptRoutes(_, _)
KeptRoutes(config, r) ==
    IF r > Len(config) THEN <<>>
    ELSE (IF RealKept(config[r]) THEN <<r>> ELSE <<>>) \o KeptRoutes(config, r + 1)

\* sum(result['total_wait_time'] for result in results.values())
TotalWaitTime(results) == results[RealKM0].total_wait_time + results[RealKM15].total_wait_time

\* results.get(zone, {}).get('avg_wait_per_truck', 0) * 60
ZoneWaitMinutes(results, zone) == RatMulInt(results[zone].avg_wait_per_truck, 60)

\* (baseline - test) / max(baseline, 1)
ZoneImprovement(baseline_wait, test_wait) ==
    RatDiv(RatSub(baseline_wait, test_wait), RatMax(baseline_wait, Rat(1, 1)))

\* variant: the zone conditions alone accept a candidate
AcceptsOnZonesOnly(test_results, test_total_wait, baseline_results_, best_wait_for_route_) ==
    LET km0_improvement == ZoneImprovement(ZoneWaitMinutes(baseline_results_, RealKM0),
                                           ZoneWaitMinutes(test_results, RealKM0))
        km15_improvement == ZoneImprovement(ZoneWaitMinutes(baseline_results_, RealKM15),
                                            ZoneWaitMinutes(test_results, RealKM15))
    IN  /\ RatLe(Rat(0 - 15, 100), km0_improvement)
        /\ RatLe(Rat(0 - 15, 100), km15_improvement)
        /\ RatLe(Rat(5, 100), km0_improvement) \/ RatLe(Rat(5, 100), km15_improvement)

\* "if test_total_wait < best_wait_for_route and km0_acceptable and km15_acceptable
\* and some_improvement"
Accepts(test_results, test_total_wait, baseline_results_, best_wait_for_route_) ==
    LET km0_improvement == ZoneImprovement(ZoneWaitMinutes(baseline_results_, RealKM0),
                                           ZoneWaitMinutes(test_results, RealKM0))
        km15_improvement == ZoneImprovement(ZoneWaitMinutes(baseline_results_, RealKM15),
                                            ZoneWaitMinutes(test_results, RealKM15))
    IN  /\ test_total_wait < best_wait_for_route_
        /\ RatLe(Rat(0 - 15, 100), km0_improvement)
        /\ RatLe(Rat(0 - 15, 100), km15_improvement)
        /\ RatLe(Rat(5, 100), km0_improvement) \/ RatLe(Rat(5, 100), km15_improvement)

\* configurations given to RealOptimizer: the first route to either zone or to a
\* stockpile, at 6:30, 7:00 or an unreadable time; the second to either zone at 7:00
RealFirstRoutes ==
    {[contractor |-> "HJS", parking_location |-> "TF",
      loading_location |-> "CP4", dumping_location |-> d,
      departure_time |-> t, number_of_trucks |-> n] :
        d \in {SubA12, SubU1, "STOCKPILE"}, t \in {T0630, T0700, HourNotNumeric},
        n \in 0..MaxTrucks}

RealSecondRoutes ==
    {[contractor |-> "GMG", parking_location |-> "KR",
      loading_location |-> "CP4", dumping_location |-> d,
      departure_time |-> T0700, number_of_trucks |-> n] :
        d \in {SubA12, SubA34, SubU1}, n \in 1..(MaxTrucks + 1)}

RealConfigs ==
    {<<>>}
    \cup {<<a>> : a \in RealFirstRoutes}
    \cup {<<a, b>> : a \in RealFirstRoutes, b \in RealSecondRoutes}

\* route_data: no workbook read; one row of empty cells for contractor HJS
RouteDataTables ==
    {<<>>, <<[key |-> <<"HJS", "TF", "CP4", "FENI A (LINE 1-2)">>, times |-> EmptyRowTimes]>>}

\* nothing returned yet
NotReturned == [returned |-> FALSE, success |-> FALSE, error |-> ""]

RealIdle ==
    /\ r_pc = "idle"
    /\ r_result = NotReturned
    /\ r_caller = "waiting"
    /\ r_contractor_configs = <<>>
    /\ r_route_data = <<>>
    /\ r_baseline_results = NoResults
    /\ r_baseline_total_wait = 0
    /\ r_routes_to_optimize = <<>>
    /\ r_best_config = <<>>
    /\ r_best_total_wait = 0
    /\ r_k = 0
    /\ r_ci = 0
    /\ r_best_time_for_route = <<>>
    /\ r_best_wait_for_route = 0
    /\ r_optimization_log = <<>>
    /\ r_final_results = NoResults

\* ------------------------------------------------------------------ idle halves

HelpersIdle ==
    /\ call_fn = "none"
    /\ call_pc = "idle"
    /\ dump_points = FENI_DUMP_POINTS
    /\ subpoint_name = ""
    /\ route_key = <<"", "", "">>
    /\ truck_spacing = DefaultSpacing
    /\ arrival_events = [sp \in {} |-> <<>>]
    /\ route_times = [raised |-> FALSE, travel_time |-> 0, service_time |-> 0]
    /\ server_count = 0
    /\ call_raised = FALSE
    /\ subpoint_wait_map = [sp \in {} |-> RatZero]
    /\ zone_waits = [zone \in {KM0, KM15} |-> RatZero]
    /\ queue_results = [sp \in {} |-> RatZero]

QueueIdle ==
    /\ arrivals = <<>>
    /\ num_servers = 1
    /\ server_free_times = <<>>
    /\ total_wait = 0
    /\ q_i = 0
    /\ q_pc = "idle"
    /\ avg_wait_minutes = RatZero
    /\ end_time = 0
    /\ q_log = <<>>
    /\ q_calls = 0
    /\ q_first = [avg_wait_minutes |-> RatZero, end_time |-> 0]

OptimiserIdle ==
    /\ contractor_configs = <<>>
    /\ candidate_times = <<>>
    /\ empty_speed = REFERENCE_SPEED
    /\ loaded_speed = REFERENCE_SPEED
    /\ lookup = NoLookup
    /\ pc = "idle"
    /\ baseline_waits = ZeroWaits
    /\ recommended = <<>>
    /\ ri = 0
    /\ ci = 0
    /\ best_depart = <<>>
    /\ best_total_wait = Inf
    /\ updated_config = <<>>
    /\ optimised_waits = ZeroWaits

\* ------------------------------------------------------------------ multi_server_queue, stepwise

\* a return: the call is counted and the first call's result is kept
Returned(avg, end) ==
    /\ q_calls' = q_calls + 1
    /\ q_first' = IF q_calls = 0 THEN [avg_wait_minutes |-> avg, end_time |-> end]
                  ELSE q_first

\* the call: "if not arrivals: return 0.0, 0.0", else the locals
QEnter ==
    /\ q_pc = "call"
    /\ IF arrivals = <<>>
       THEN /\ q_pc' = "done"
            /\ avg_wait_minutes' = RatZero
            /\ end_time' = 0
            /\ Returned(RatZero, 0)
            /\ UNCHANGED <<server_free_times, total_wait>>
       ELSE /\ q_pc' = "loop"
            /\ server_free_times' = InitialFree(num_servers)
            /\ total_wait' = 0
            /\ UNCHANGED <<avg_wait_minutes, end_time, q_calls, q_first>>
    /\ q_log' = <<>>
    /\ UNCHANGED <<arrivals, num_servers, q_i, ovars, hvars, rvars>>

\* one turn of "for arrival_time, service_time in arrivals"
QLoop ==
    /\ q_pc = "loop"
    /\ q_i < Len(arrivals)
    /\ LET ev == arrivals[q_i + 1]
           st == QueueLoopBody([free |-> server_free_times, total_wait |-> total_wait], ev)
           idx == EarliestFree(server_free_times)
           wait == WaitFor(server_free_times[idx], ev[1])
       IN  /\ server_free_times' = st.free
           /\ total_wait' = st.total_wait
           /\ q_log' = Append(q_log, [arrival_time |-> ev[1], service_time |-> ev[2],
                                      idx |-> idx, wait |-> wait,
                                      start_service |-> ev[1] + wait,
                                      free_before |-> server_free_times])
    /\ q_i' = q_i + 1
    /\ UNCHANGED <<arrivals, num_servers, q_pc, avg_wait_minutes, end_time, q_calls,
                   q_first, ovars, hvars, rvars>>

\* the return after the loop
QReturn ==
    /\ q_pc = "loop"
    /\ q_i = Len(arrivals)
    /\ avg_wait_minutes' = AvgMinutes(total_wait, Len(arrivals))
    /\ end_time' = MaxOf(server_free_times)
    /\ Returned(avg_wait_minutes', end_time')
    /\ q_pc' = "done"
    /\ UNCHANGED <<arrivals, num_servers, server_free_times, total_wait, q_i, q_log,
                   ovars, hvars, rvars>>

\* the caller calls again with the same list object and server count
QAgain ==
    /\ q_pc = "done"
    /\ q_calls < MaxCalls
    /\ q_pc' = "call"
    /\ q_i' = 0
    /\ UNCHANGED <<arrivals, num_servers, server_free_times, total_wait, avg_wait_minutes,
                   end_time, q_log, q_calls, q_first, ovars, hvars, rvars>>

QInit ==
    /\ arrivals \in ArrivalLists \cup {TwoTruckScenario}
    /\ num_servers \in 1..MaxServers
    /\ server_free_times = <<>>
    /\ total_wait = 0
    /\ q_i = 0
    /\ q_pc = "call"
    /\ avg_wait_minutes = RatZero
    /\ end_time = 0
    /\ q_log = <<>>
    /\ q_calls = 0
    /\ q_first = [avg_wait_minutes |-> RatZero, end_time |-> 0]
    /\ OptimiserIdle
    /\ HelpersIdle
    /\ RealIdle

QNext == QEnter \/ QLoop \/ QReturn \/ QAgain

SpecQueue == QInit /\ [][QNext]_vars

\* ------------------------------------------------------------------ optimise_departure_times, stepwise

\* variant: only the last recommendation is written to the copy
ApplyRecommendedLastOnly(cfgs, recs, k) ==
    IF recs = <<>> THEN cfgs
    ELSE SetDeparture(cfgs, recs[Len(recs)].contractor, recs[Len(recs)].route,
                      recs[Len(recs)].optimal)

\* updated_config: a deep copy with every recommended optimal time written
RECURSIVE ApplyRecommended(_, _, _)
ApplyRecommended(cfgs, recs, k) ==
    IF k > Len(recs) THEN cfgs
    ELSE ApplyRecommended(SetDeparture(cfgs, recs[k].contractor, recs[k].route,
                                       recs[k].optimal), recs, k + 1)

\* variant: candidates are evaluated against the partially optimised configuration
BaselineConfigsSequential(cfgs, recs) == ApplyRecommended(cfgs, recs, 1)

\* the configuration every candidate is evaluated against: the original
BaselineConfigs(cfgs, recs) == cfgs

\* variant: a candidate replaces only a best that some candidate has already set
ImprovesOnFinite(total, best) == best # Inf /\ RatLt(total, best)

\* variant: "if total_wait <= best_total_wait"
ImprovesOrTies(total, best) == RatLe(total, best)

\* "if total_wait < best_total_wait": the candidate replaces the best so far
Improves(total, best) == RatLt(total, best)

\* baseline_waits, and the empty recommended
Baseline ==
    /\ pc = "start"
    /\ baseline_waits' = simulate_wait_times(contractor_configs, empty_speed, loaded_speed,
                                             lookup, DefaultSpacing)
    /\ recommended' = <<>>
    /\ ri' = 0
    /\ pc' = "next_route"
    /\ UNCHANGED <<contractor_configs, candidate_times, empty_speed, loaded_speed, lookup,
                   ci, best_depart, best_total_wait, updated_config, optimised_waits, qvars, hvars, rvars>>

\* the head of "for route, cfg in routes.items()"
BeginRoute ==
    /\ pc = "next_route"
    /\ ri < Len(contractor_configs)
    /\ ri' = ri + 1
    /\ best_depart' = contractor_configs[ri + 1].departure_time
    /\ best_total_wait' = Inf
    /\ ci' = 0
    /\ pc' = "candidates"
    /\ UNCHANGED <<contractor_configs, candidate_times, empty_speed, loaded_speed, lookup,
                   baseline_waits, recommended, updated_config, optimised_waits, qvars, hvars, rvars>>

\* one turn of "for candidate in candidate_times"
TestCandidate ==
    /\ pc = "candidates"
    /\ ci < Len(candidate_times)
    /\ LET cfg == contractor_configs[ri]
           candidate == candidate_times[ci + 1]
           total == evaluate_departure_for_route(
                        BaselineConfigs(contractor_configs, recommended),
                        cfg.contractor, cfg.parking_location, candidate,
                        empty_speed, loaded_speed, lookup, DefaultSpacing)
       IN  /\ IF Improves(total, best_total_wait)
              THEN best_total_wait' = total /\ best_depart' = candidate
              ELSE UNCHANGED <<best_total_wait, best_depart>>
           /\ contractor_configs' = CallerConfigAfterEvaluate(
                  contractor_configs, cfg.contractor, cfg.parking_location, candidate)
    /\ ci' = ci + 1
    /\ UNCHANGED <<candidate_times, empty_speed, loaded_speed, lookup, pc, baseline_waits,
                   recommended, ri, updated_config, optimised_waits, qvars, hvars, rvars>>

\* recommended[contractor][route] = {'current': ..., 'optimal': best_depart}
Record ==
    /\ pc = "candidates"
    /\ ci = Len(candidate_times)
    /\ recommended' = Append(recommended,
           [contractor |-> contractor_configs[ri].contractor,
            route |-> contractor_configs[ri].parking_location,
            current |-> contractor_configs[ri].departure_time,
            optimal |-> best_depart])
    /\ pc' = "next_route"
    /\ UNCHANGED <<contractor_configs, candidate_times, empty_speed, loaded_speed, lookup,
                   baseline_waits, ri, ci, best_depart, best_total_wait, updated_config,
                   optimised_waits, qvars, hvars, rvars>>

\* the second pass and the return
SecondPass ==
    /\ pc = "next_route"
    /\ ri = Len(contractor_configs)
    /\ updated_config' = ApplyRecommended(contractor_configs, recommended, 1)
    /\ optimised_waits' = simulate_wait_times(updated_config', empty_speed, loaded_speed,
                                              lookup, DefaultSpacing)
    /\ pc' = "done"
    /\ UNCHANGED <<contractor_configs, candidate_times, empty_speed, loaded_speed, lookup,
                   baseline_waits, recommended, ri, ci, best_depart, best_total_wait, qvars, hvars, rvars>>

Init ==
    /\ contractor_configs \in Configs
    /\ candidate_times \in CandidateLists
    /\ empty_speed = REFERENCE_SPEED
    /\ loaded_speed = REFERENCE_SPEED
    /\ lookup = NoLookup
    /\ pc = "start"
    /\ baseline_waits = ZeroWaits
    /\ recommended = <<>>
    /\ ri = 0
    /\ ci = 0
    /\ best_depart = <<>>
    /\ best_total_wait = Inf
    /\ updated_config = <<>>
    /\ optimised_waits = ZeroWaits
    /\ QueueIdle
    /\ HelpersIdle
    /\ RealIdle

Next == Baseline \/ BeginRoute \/ TestCandidate \/ Record \/ SecondPass

Spec == Init /\ [][Next]_vars

\* ------------------------------------------------------------------ optimize_departure_times of real_optimizer.py, stepwise

\* Step 1 and 2: the baseline, and the return when no route is kept
RBaseline ==
    /\ r_pc = "start"
    /\ LET baseline_results_ == simulate_current_system(r_contractor_configs, r_route_data)
           routes == KeptRoutes(r_contractor_configs, 1)
       IN  /\ r_baseline_results' = baseline_results_
           /\ r_baseline_total_wait' = TotalWaitTime(baseline_results_)
           /\ r_routes_to_optimize' = routes
           /\ r_best_config' = r_contractor_configs
           /\ r_best_total_wait' = TotalWaitTime(baseline_results_)
           /\ IF routes = <<>>
              THEN r_pc' = "done" /\ r_final_results' = baseline_results_
              ELSE r_pc' = "next_route" /\ UNCHANGED r_final_results
    /\ r_k' = 0
    /\ UNCHANGED <<r_contractor_configs, r_route_data, r_ci, r_best_time_for_route,
                   r_best_wait_for_route, r_optimization_log, r_result, r_caller,
                   qvars, ovars, hvars>>

\* the head of "for route_key in routes_to_optimize"
RBeginRoute ==
    /\ r_pc = "next_route"
    /\ r_k < Len(r_routes_to_optimize)
    /\ r_k' = r_k + 1
    /\ r_best_time_for_route' =
           r_contractor_configs[r_routes_to_optimize[r_k + 1]].departure_time
    /\ r_best_wait_for_route' = r_best_total_wait
    /\ r_ci' = 0
    /\ r_pc' = "candidates"
    /\ UNCHANGED <<r_contractor_configs, r_route_data, r_baseline_results,
                   r_baseline_total_wait, r_routes_to_optimize, r_best_config,
                   r_best_total_wait, r_optimization_log, r_final_results,
                   r_result, r_caller,
                   qvars, ovars, hvars>>

\* one turn of "for candidate_time in self.time_window"
RTestCandidate ==
    /\ r_pc = "candidates"
    /\ r_ci < Len(time_window)
    /\ LET route == r_routes_to_optimize[r_k]
           current_time == r_contractor_configs[route].departure_time
           candidate_time == time_window[r_ci + 1]
           test_config == [r_best_config EXCEPT ![route].departure_time = candidate_time]
           test_results == simulate_current_system(test_config, r_route_data)
           test_total_wait == TotalWaitTime(test_results)
       IN  IF candidate_time # current_time
              /\ Accepts(test_results, test_total_wait, r_baseline_results,
                         r_best_wait_for_route)
           THEN /\ r_best_wait_for_route' = test_total_wait
                /\ r_best_time_for_route' = candidate_time
                /\ r_best_total_wait' = test_total_wait
                /\ r_best_config' = test_config
           ELSE UNCHANGED <<r_best_wait_for_route, r_best_time_for_route,
                            r_best_total_wait, r_best_config>>
    /\ r_ci' = r_ci + 1
    /\ UNCHANGED <<r_pc, r_contractor_configs, r_route_data, r_baseline_results,
                   r_baseline_total_wait, r_routes_to_optimize, r_k, r_optimization_log,
                   r_final_results, r_result, r_caller,
                   qvars, ovars, hvars>>

\* optimization_log[route_key] = {...}
RLog ==
    /\ r_pc = "candidates"
    /\ r_ci = Len(time_window)
    /\ LET route == r_routes_to_optimize[r_k]
           current_time == r_contractor_configs[route].departure_time
       IN  r_optimization_log' = Append(r_optimization_log,
               [route |-> route, current_time |-> current_time,
                optimal_time |-> r_best_time_for_route,
                improvement |-> r_baseline_total_wait - r_best_wait_for_route,
                changed |-> r_best_time_for_route # current_time])
    /\ r_pc' = "next_route"
    /\ UNCHANGED <<r_contractor_configs, r_route_data, r_baseline_results,
                   r_baseline_total_wait, r_routes_to_optimize, r_best_config,
                   r_best_total_wait, r_k, r_ci, r_best_time_for_route,
                   r_best_wait_for_route, r_final_results, r_result, r_caller,
                   qvars, ovars, hvars>>

\* Step 4: final_results; improvement_percent divides by baseline_total_wait * 60 and
\* raises ZeroDivisionError when the baseline has no wait.  The hourly analyses of
\* step 5 touch none of the values kept here.
RFinish ==
    /\ r_pc = "next_route"
    /\ r_k = Len(r_routes_to_optimize)
    /\ r_final_results' = simulate_current_system(r_best_config, r_route_data)
    /\ r_pc' = IF r_baseline_total_wait = 0 THEN "raised" ELSE "done"
    /\ UNCHANGED <<r_contractor_configs, r_route_data, r_baseline_results,
                   r_baseline_total_wait, r_routes_to_optimize, r_best_config,
                   r_best_total_wait, r_k, r_ci, r_best_time_for_route,
                   r_best_wait_for_route, r_optimization_log, r_result, r_caller,
                   qvars, ovars, hvars>>

\* run_real_optimization: the try block returns {'success': True, ...}, the except
\* block {'success': False, 'error': str(e)}
RReturn ==
    /\ r_pc \in {"done", "raised"}
    /\ ~r_result.returned
    /\ r_result' = [returned |-> TRUE, success |-> r_pc = "done",
                    error |-> IF r_pc = "raised" THEN "float division by zero" ELSE ""]
    /\ UNCHANGED <<r_pc, r_contractor_configs, r_route_data, r_baseline_results,
                   r_baseline_total_wait, r_routes_to_optimize, r_best_config,
                   r_best_total_wait, r_k, r_ci, r_best_time_for_route,
                   r_best_wait_for_route, r_optimization_log, r_final_results, r_caller,
                   qvars, ovars, hvars>>

\* run_waiting_time_optimization: "if not optimization_result['success']: return
\* create_fallback_results(...)", else the results are extracted
RCaller ==
    /\ r_result.returned
    /\ r_caller = "waiting"
    /\ r_caller' = IF r_result.success THEN "results" ELSE "fallback"
    /\ UNCHANGED <<r_pc, r_contractor_configs, r_route_data, r_baseline_results,
                   r_baseline_total_wait, r_routes_to_optimize, r_best_config,
                   r_best_total_wait, r_k, r_ci, r_best_time_for_route,
                   r_best_wait_for_route, r_optimization_log, r_final_results, r_result,
                   qvars, ovars, hvars>>

RInit ==
    /\ r_pc = "start"
    /\ r_result = NotReturned
    /\ r_caller = "waiting"
    /\ r_contractor_configs \in RealConfigs
    /\ r_route_data \in RouteDataTables
    /\ r_baseline_results = NoResults
    /\ r_baseline_total_wait = 0
    /\ r_routes_to_optimize = <<>>
    /\ r_best_config = <<>>
    /\ r_best_total_wait = 0
    /\ r_k = 0
    /\ r_ci = 0
    /\ r_best_time_for_route = <<>>
    /\ r_best_wait_for_route = 0
    /\ r_optimization_log = <<>>
    /\ r_final_results = NoResults
    /\ QueueIdle
    /\ OptimiserIdle
    /\ HelpersIdle

RNext ==
    \/ RBaseline
    \/ RBeginRoute
    \/ RTestCandidate
    \/ RLog
    \/ RFinish
    \/ RReturn
    \/ RCaller

SpecReal == RInit /\ [][RNext]_vars

\* ------------------------------------------------------------------ single calls of the helpers

\* build_arrival_events(contractor_configs, empty_speed, loaded_speed, lookup, spacing);
\* every statement of a route's turn is inside "try ... except Exception: continue"
CallBuild ==
    /\ call_pc = "call"
    /\ call_fn = "build_arrival_events"
    /\ arrival_events' = build_arrival_events(contractor_configs, empty_speed, loaded_speed,
                                               lookup, truck_spacing)
    /\ call_raised' = FALSE
    /\ call_pc' = "done"
    /\ UNCHANGED <<call_fn, dump_points, subpoint_name, route_key, truck_spacing,
                   route_times, server_count, subpoint_wait_map, zone_waits, queue_results,
                   qvars, ovars, rvars>>

\* compute_route_times(parking, loading, dump, empty_speed, loaded_speed, lookup)
CallRouteTimes ==
    /\ call_pc = "call"
    /\ call_fn = "compute_route_times"
    /\ route_times' = compute_route_times(route_key[1], route_key[2], route_key[3],
                                           empty_speed, loaded_speed, lookup)
    /\ call_raised' = route_times'.raised
    /\ call_pc' = "done"
    /\ UNCHANGED <<call_fn, dump_points, subpoint_name, route_key, truck_spacing,
                   arrival_events, server_count, subpoint_wait_map, zone_waits,
                   queue_results, qvars, ovars, rvars>>

\* queue_simulation.get_server_count(subpoint_name)
CallGetServerCount ==
    /\ call_pc = "call"
    /\ call_fn = "get_server_count"
    /\ server_count' = get_server_count(subpoint_name, dump_points)
    /\ call_raised' = FALSE
    /\ call_pc' = "done"
    /\ UNCHANGED <<call_fn, dump_points, subpoint_name, route_key, truck_spacing,
                   arrival_events, route_times, subpoint_wait_map, zone_waits,
                   queue_results, qvars, ovars, rvars>>

\* simulate_wait_times._num_servers_for(sub_point)
CallNumServersFor ==
    /\ call_pc = "call"
    /\ call_fn = "_num_servers_for"
    /\ LET r == _num_servers_for(subpoint_name, dump_points)
       IN  /\ server_count' = r.count
           /\ call_raised' = r.raised
    /\ call_pc' = "done"
    /\ UNCHANGED <<call_fn, dump_points, subpoint_name, route_key, truck_spacing,
                   arrival_events, route_times, subpoint_wait_map, zone_waits,
                   queue_results, qvars, ovars, rvars>>

\* simulate_wait_times(contractor_configs, empty_speed, loaded_speed, lookup, spacing):
\* the events, the inline sub-point averages, the zone averages
CallSimulateWaitTimes ==
    /\ call_pc = "call"
    /\ call_fn = "simulate_wait_times"
    /\ arrival_events' = build_arrival_events(contractor_configs, empty_speed, loaded_speed,
                                               lookup, truck_spacing)
    /\ subpoint_wait_map' = subpoint_waits(arrival_events')
    /\ zone_waits' = simulate_wait_times(contractor_configs, empty_speed, loaded_speed,
                                          lookup, truck_spacing)
    /\ call_raised' = FALSE
    /\ call_pc' = "done"
    /\ UNCHANGED <<call_fn, dump_points, subpoint_name, route_key, truck_spacing,
                   route_times, server_count, queue_results, qvars, ovars, rvars>>

\* simulate_queues(events), which returns simulate_subpoint_queues(events)
CallSimulateQueues ==
    /\ call_pc = "call"
    /\ call_fn = "simulate_queues"
    /\ queue_results' = simulate_queues(arrival_events, dump_points)
    /\ call_raised' = FALSE
    /\ call_pc' = "done"
    /\ UNCHANGED <<call_fn, dump_points, subpoint_name, route_key, truck_spacing,
                   arrival_events, route_times, server_count, subpoint_wait_map,
                   zone_waits, qvars, ovars, rvars>>

\* the optimiser's locals while only a helper is called
SearchIdle ==
    /\ candidate_times = <<>>
    /\ pc = "idle"
    /\ baseline_waits = ZeroWaits
    /\ recommended = <<>>
    /\ ri = 0
    /\ ci = 0
    /\ best_depart = <<>>
    /\ best_total_wait = Inf
    /\ updated_config = <<>>
    /\ optimised_waits = ZeroWaits

BuildInit ==
    /\ call_fn = "build_arrival_events"
    /\ contractor_configs \in BuildConfigs
    /\ \E sp \in SpeedPairs : empty_speed = sp[1] /\ loaded_speed = sp[2]
    /\ lookup \in BuildLookups
    /\ lookup # NoLookup => (empty_speed = REFERENCE_SPEED /\ loaded_speed = REFERENCE_SPEED)
    /\ truck_spacing \in {0, DefaultSpacing}
    /\ dump_points = FENI_DUMP_POINTS
    /\ subpoint_name = ""
    /\ route_key = <<"", "", "">>

RouteTimesInit ==
    /\ call_fn = "compute_route_times"
    /\ contractor_configs = <<>>
    /\ \E sp \in SpeedPairs : empty_speed = sp[1] /\ loaded_speed = sp[2]
    /\ lookup \in LookupTables
    /\ route_key \in RouteKeys
    /\ truck_spacing = DefaultSpacing
    /\ dump_points = FENI_DUMP_POINTS
    /\ subpoint_name = ""

ServerCountInit ==
    /\ call_fn \in {"get_server_count", "_num_servers_for"}
    /\ contractor_configs = <<>>
    /\ empty_speed = REFERENCE_SPEED
    /\ loaded_speed = REFERENCE_SPEED
    /\ lookup = NoLookup
    /\ dump_points \in Hierarchies
    /\ subpoint_name \in ServerNames
    /\ route_key = <<"", "", "">>
    /\ truck_spacing = DefaultSpacing

\* simulate_wait_times is given a configuration; simulate_queues is given the events
\* build_arrival_events made of one
SimulateInit ==
    /\ call_fn \in {"simulate_wait_times", "simulate_queues"}
    /\ contractor_configs \in SimulateConfigs
    /\ empty_speed = REFERENCE_SPEED
    /\ loaded_speed = REFERENCE_SPEED
    /\ lookup \in SimulateLookups
    /\ truck_spacing = DefaultSpacing
    /\ dump_points = FENI_DUMP_POINTS
    /\ subpoint_name = ""
    /\ route_key = <<"", "", "">>

CallInit ==
    /\ BuildInit \/ RouteTimesInit \/ ServerCountInit \/ SimulateInit
    /\ call_pc = "call"
    /\ arrival_events = IF call_fn = "simulate_queues"
                        THEN build_arrival_events(contractor_configs, empty_speed,
                                                  loaded_speed, lookup, truck_spacing)
                        ELSE [sp \in {} |-> <<>>]
    /\ subpoint_wait_map = [sp \in {} |-> RatZero]
    /\ zone_waits = [zone \in {KM0, KM15} |-> RatZero]
    /\ queue_results = [sp \in {} |-> RatZero]
    /\ route_times = [raised |-> FALSE, travel_time |-> 0, service_time |-> 0]
    /\ server_count = 0
    /\ call_raised = FALSE
    /\ SearchIdle
    /\ QueueIdle
    /\ RealIdle

CallNext ==
    \/ CallBuild
    \/ CallRouteTimes
    \/ CallGetServerCount
    \/ CallNumServersFor
    \/ CallSimulateWaitTimes
    \/ CallSimulateQueues

SpecCalls == CallInit /\ [][CallNext]_vars

\* ------------------------------------------------------------------ claims: the queue

\* a loop turn on event ev = arrivals[q_i']: some server s with minimal free time
\* takes it, wait = max(0, free[s] - arrival), free'[s] = arrival + wait + service,
\* the other servers keep their free times, and the wait is accumulated
C1_TurnOK ==
    (q_pc = "loop" /\ q_i' = q_i + 1) =>
        LET ev == arrivals[q_i']
        IN  \E s \in 1..Len(server_free_times) :
               /\ \A j \in 1..Len(server_free_times) :
                      server_free_times[s] <= server_free_times[j]
               /\ LET wait == IF server_free_times[s] > ev[1]
                              THEN server_free_times[s] - ev[1] ELSE 0
                  IN  /\ server_free_times'[s] = ev[1] + wait + ev[2]
                      /\ \A j \in 1..Len(server_free_times) :
                             j # s => server_free_times'[j] = server_free_times[j]
                      /\ Len(server_free_times') = Len(server_free_times)
                      /\ total_wait' = total_wait + wait

\* the loop starts with num_servers servers free at 0, no wait and no event processed
C1_EnterOK ==
    (q_pc = "call" /\ q_pc' = "loop") =>
        /\ Len(server_free_times') = num_servers
        /\ \A j \in 1..num_servers : server_free_times'[j] = 0
        /\ total_wait' = 0
        /\ q_i' = 0

\* the result is 0 for an empty list and otherwise, every event having had its
\* turn, (sum of waits / number of events) x 60 minutes, the waits being hours
C1_ReturnOK ==
    (q_pc # "done" /\ q_pc' = "done") =>
        IF arrivals = <<>>
        THEN avg_wait_minutes' = [n |-> 0, d |-> 1]
        ELSE /\ q_i = Len(arrivals)
             /\ avg_wait_minutes'.d > 0
             /\ avg_wait_minutes'.n * Len(arrivals) * UnitsPerHour
                    = total_wait * 60 * avg_wait_minutes'.d

\* C1: multi_server_queue(arrivals, k), k >= 1, processes the events in list order
\* with every server's free time starting at 0; each event goes to a server with
\* minimal free time, waits max(0, free_time - arrival), sets that server's free time
\* to arrival + wait + service_time and leaves the others; the result is
\* (sum of waits / number of events) x 60 minutes, and 0 for an empty list.
C1_QueueAlgorithm == [][C1_EnterOK /\ C1_TurnOK /\ C1_ReturnOK]_vars

\* a run of at least two events on at least two servers in which a truck waited
C1_Witness ==
    /\ q_pc = "done"
    /\ Len(arrivals) >= 2
    /\ num_servers >= 2
    /\ total_wait > 0

\* C5: server-count monotonicity: for a list sorted by arrival time and k >= 1, the
\* average wait with k + 1 servers is at most the average wait with k servers.
C5_ServerMonotone ==
    q_pc = "done" =>
        RatLe(multi_server_queue(arrivals, num_servers + 1).avg_wait_minutes,
              avg_wait_minutes)

\* a finished run whose average wait one more server strictly lowers
C5_Witness ==
    /\ q_pc = "done"
    /\ RatLt(multi_server_queue(arrivals, num_servers + 1).avg_wait_minutes,
             avg_wait_minutes)

\* ------------------------------------------------------------------ claims: the pipeline

\* baseline_waits has been computed
Started == pc \in {"next_route", "candidates", "done"}

RECURSIVE SumInt(_, _)
SumInt(f, S) ==
    IF S = {} THEN 0
    ELSE LET x == CHOOSE x \in S : TRUE IN f[x] + SumInt(f, S \ {x})

RECURSIVE SumRat(_, _)
SumRat(f, S) ==
    IF S = {} THEN [n |-> 0, d |-> 1]
    ELSE LET x == CHOOSE x \in S : TRUE
             rest == SumRat(f, S \ {x})
         IN  Rat(f[x].n * rest.d + rest.n * f[x].d, f[x].d * rest.d)

RouteIds == 1..Len(contractor_configs)

NowEvents ==
    build_arrival_events(contractor_configs, empty_speed, loaded_speed, lookup,
                         DefaultSpacing)

\* the trucks the configuration names for sub-point sp
ConfiguredTrucks(sp) ==
    SumInt([r \in RouteIds |-> contractor_configs[r].number_of_trucks],
           {r \in RouteIds : contractor_configs[r].dumping_location = sp})

\* the sub-points of a zone at which events are simulated
ActiveSubPoints(zone) ==
    {sp \in DOMAIN NowEvents :
        \E z \in 1..Len(FENI_DUMP_POINTS) :
            FENI_DUMP_POINTS[z].zone = zone /\ sp \in SubPointsOf(z)}

\* C2: each zone's average is the truck-weighted mean of its sub-point averages: the
\* sum over the zone's sub-points with events of (sub-point average x trucks
\* configured for the sub-point) divided by the sum of those truck counts; waits of
\* 10 and 20 minutes with 1 and 3 trucks give 17.5.
C2_ZoneWeightedMean ==
    /\ Started =>
          \A zone \in {KM0, KM15} :
              LET S == ActiveSubPoints(zone)
                  avg == subpoint_waits(NowEvents)
                  den == SumInt([sp \in S |-> ConfiguredTrucks(sp)], S)
                  num == SumRat([sp \in S |->
                                    Rat(avg[sp].n * ConfiguredTrucks(sp), avg[sp].d)], S)
              IN  den > 0 =>
                      baseline_waits[zone].n * num.d * den
                          = num.n * baseline_waits[zone].d
    /\ ZoneAverage((SubA12 :> Rat(10, 1)) @@ (SubA34 :> Rat(20, 1)),
                   <<[dumping_location |-> SubA12, number_of_trucks |-> 1],
                     [dumping_location |-> SubA34, number_of_trucks |-> 3]>>,
                   KM0) = [n |-> 35, d |-> 2]

\* a zone with two simulated sub-points of different average and different truck
\* count, so that the weighted and the unweighted mean differ
C2_Witness ==
    /\ Started
    /\ \E sp1, sp2 \in ActiveSubPoints(KM0) :
          /\ subpoint_waits(NowEvents)[sp1] # subpoint_waits(NowEvents)[sp2]
          /\ ConfiguredTrucks(sp1) # ConfiguredTrucks(sp2)
    /\ baseline_waits[KM0] # [n |-> 0, d |-> 1]

CandidateSet == {candidate_times[i] : i \in 1..Len(candidate_times)}

\* the original configuration with only route k's departure_time overwritten by t
OriginalWith(k, t) ==
    [r \in RouteIds |->
        IF r = k THEN [contractor_configs[r] EXCEPT !.departure_time = t]
        ELSE contractor_configs[r]]

\* its total truck-weighted wait
TotalWith(k, t) ==
    TotalWait(OriginalWith(k, t), empty_speed, loaded_speed, lookup, DefaultSpacing)

\* C3: for every route the reported optimal time is a candidate minimising the total
\* truck-weighted wait of the ORIGINAL configuration with only that route's
\* departure_time overwritten, whatever was chosen for the other routes (membership
\* in candidate_times needs a candidate to exist).
C3_IndependentMinimum ==
    pc = "done" =>
        \A k \in 1..Len(recommended) :
            /\ candidate_times # <<>> => recommended[k].optimal \in CandidateSet
            /\ \A c \in CandidateSet :
                   RatLe(TotalWith(k, recommended[k].optimal), TotalWith(k, c))

\* two routes, the second moved to a time that is strictly better than another
\* candidate although the first route was moved as well
C3_Witness ==
    /\ pc = "done"
    /\ Len(recommended) = 2
    /\ recommended[1].optimal # recommended[1].current
    /\ recommended[2].optimal # recommended[2].current
    /\ \E c \in CandidateSet : RatLt(TotalWith(2, recommended[2].optimal), TotalWith(2, c))

\* C4: non-regression: for every route whose current departure time is a candidate,
\* the total with the reported optimal time (other routes at their original times)
\* is at most the total with the current time.
C4_NonRegression ==
    pc = "done" =>
        \A k \in 1..Len(recommended) :
            recommended[k].current \in CandidateSet =>
                RatLe(TotalWith(k, recommended[k].optimal),
                      TotalWith(k, recommended[k].current))

\* a route whose current time is a candidate and whose optimal time is strictly better
C4_Witness ==
    /\ pc = "done"
    /\ \E k \in 1..Len(recommended) :
          /\ recommended[k].current \in CandidateSet
          /\ RatLt(TotalWith(k, recommended[k].optimal),
                   TotalWith(k, recommended[k].current))

\* C6: tie-break: of several candidates with the same minimal total the earliest in
\* candidate_times is reported; every earlier candidate has a strictly larger total.
C6_FirstMinimumWins ==
    pc = "done" =>
        \A k \in 1..Len(recommended) :
            candidate_times # <<>> =>
                \E i \in 1..Len(candidate_times) :
                    /\ candidate_times[i] = recommended[k].optimal
                    /\ \A j \in 1..(i - 1) :
                           RatLt(TotalWith(k, candidate_times[i]),
                                 TotalWith(k, candidate_times[j]))
                    /\ \A j \in (i + 1)..Len(candidate_times) :
                           RatLe(TotalWith(k, candidate_times[i]),
                                 TotalWith(k, candidate_times[j]))

\* a route of a system with waiting for which two candidates tie at the minimum, the
\* earlier one being reported
C6_Witness ==
    /\ pc = "done"
    /\ baseline_waits[KM0] # [n |-> 0, d |-> 1]
    /\ \E k \in 1..Len(recommended) :
          \E i, j \in 1..Len(candidate_times) :
              /\ i < j
              /\ candidate_times[i] = recommended[k].optimal
              /\ TotalWith(k, candidate_times[i]) = TotalWith(k, candidate_times[j])
              /\ \E c \in CandidateSet :
                     RatLt(TotalWith(k, candidate_times[i]), TotalWith(k, c))

\* C7: there is a recommendation for every (contractor, route), its 'current' is the
\* configured departure_time, and a route for which no candidate gives a strictly
\* lower total than its current departure time has optimal == current.
C7_UnimprovedKeepsCurrent ==
    pc = "done" =>
        /\ Len(recommended) = Len(contractor_configs)
        /\ \A k \in 1..Len(recommended) :
              /\ recommended[k].contractor = contractor_configs[k].contractor
              /\ recommended[k].route = contractor_configs[k].parking_location
              /\ recommended[k].current = contractor_configs[k].departure_time
              /\ (\A c \in CandidateSet :
                      ~RatLt(TotalWith(k, c), TotalWith(k, recommended[k].current)))
                     => recommended[k].optimal = recommended[k].current

AllReplaced ==
    [r \in RouteIds |->
        [contractor_configs[r] EXCEPT !.departure_time = recommended[r].optimal]]

\* C9: the optimised zone waits are simulate_wait_times of one copy of the original
\* configuration with every recommended optimal time written at once; the baseline
\* zone waits are simulate_wait_times of the unmodified configuration.
C9_CombinedSecondPass ==
    pc = "done" =>
        /\ Len(recommended) = Len(contractor_configs)
        /\ optimised_waits = simulate_wait_times(AllReplaced, empty_speed, loaded_speed,
                                                 lookup, DefaultSpacing)
        /\ baseline_waits = simulate_wait_times(contractor_configs, empty_speed,
                                                loaded_speed, lookup, DefaultSpacing)

\* both routes were moved and the optimised waits differ from the baseline waits
C9_Witness ==
    /\ pc = "done"
    /\ Len(recommended) = 2
    /\ recommended[1].optimal # recommended[1].current
    /\ recommended[2].optimal # recommended[2].current
    /\ optimised_waits # baseline_waits

\* the trucks assigned to a zone: those of the routes dumping at one of its sub-points
AssignedTrucks(cfgs, zone) ==
    SumInt([r \in 1..Len(cfgs) |-> cfgs[r].number_of_trucks],
           {r \in 1..Len(cfgs) :
               \E z \in 1..Len(FENI_DUMP_POINTS) :
                   /\ FENI_DUMP_POINTS[z].zone = zone
                   /\ cfgs[r].dumping_location \in SubPointsOf(z)})

\* the result maps exactly the two zones to finite averages, 0 for a zone without trucks
TwoZonesZeroWhenEmpty(waits, cfgs) ==
    /\ DOMAIN waits = {"FENI KM 0", "FENI KM 15"}
    /\ \A zone \in DOMAIN waits :
          /\ waits[zone].d > 0
          /\ AssignedTrucks(cfgs, zone) = 0 => waits[zone] = [n |-> 0, d |-> 1]

\* C10: for every configuration, one with no routes or only zero-truck routes
\* included, simulate_wait_times returns averages for exactly the zones 'FENI KM 0'
\* and 'FENI KM 15' without raising, and a zone with zero assigned trucks has
\* average wait exactly 0.
C10_TwoZonesZeroTrucks ==
    /\ Started => TwoZonesZeroWhenEmpty(baseline_waits, contractor_configs)
    /\ pc = "done" => TwoZonesZeroWhenEmpty(optimised_waits, updated_config)

\* one zone has trucks that wait while the other has routes but no trucks
C10_Witness ==
    /\ pc = "done"
    /\ baseline_waits[KM0] # [n |-> 0, d |-> 1]
    /\ AssignedTrucks(contractor_configs, KM15) = 0
    /\ \E r \in RouteIds : contractor_configs[r].dumping_location = SubU1

\* ------------------------------------------------------------------ claims: the queue, continued

\* C11: no-wait invariant: when a sub-point has at most as many events as servers
\* (a single truck; two trucks at two servers) and arrival times are non-negative,
\* every truck's wait is 0 and the average wait is 0.
C11_NoWaitWithinCapacity ==
    (q_pc \in {"loop", "done"} /\ Len(arrivals) <= num_servers
     /\ \A i \in 1..Len(arrivals) : arrivals[i][1] >= 0) =>
        /\ total_wait = 0
        /\ q_pc = "done" => avg_wait_minutes = [n |-> 0, d |-> 1]

\* two trucks at two servers, the second arriving while the first is being served
C11_Witness ==
    /\ q_pc = "done"
    /\ Len(arrivals) = 2
    /\ num_servers = 2
    /\ arrivals[2][1] < arrivals[1][1] + arrivals[1][2]

\* C12: two trucks arriving at 7.00 h and 7.02 h, each with service time 0.10 h, at
\* one server: the first waits 0, the second 0.08 h (24 units, 4.8 min), and the
\* average returned is 2.4 min (12/5).
C12_TwoTrucksOneServer ==
    (arrivals = <<<<2100, 30>>, <<2106, 30>>>> /\ num_servers = 1) =>
        /\ (q_pc = "loop" /\ q_i = 1) => total_wait = 0
        /\ (q_pc = "loop" /\ q_i = 2) => total_wait = 24
        /\ q_pc = "done" => avg_wait_minutes = [n |-> 12, d |-> 5]

\* the scenario has run to its result
C12_Witness ==
    /\ arrivals = <<<<2100, 30>>, <<2106, 30>>>>
    /\ num_servers = 1
    /\ q_pc = "done"
    /\ q_i = 2

\* ------------------------------------------------------------------ claims: the arrival builder

Built == call_pc = "done" /\ call_fn = "build_arrival_events"

LeafSubPoints == {SubA12, SubA34, SubU1}

\* a route the builder is to simulate: trucks, both locations, a dump sub-point
ToSimulate(cfg) ==
    /\ cfg.number_of_trucks > 0
    /\ cfg.loading_location # ""
    /\ cfg.dumping_location \in LeafSubPoints

\* the hour an H:MM string denotes, for the well-formed strings drawn
HourOf(t) ==
    CASE t = T0600 -> 6 * UnitsPerHour
      [] t = T0630 -> 6 * UnitsPerHour + 150
      [] t = T0700 -> 7 * UnitsPerHour
      [] t = T0701 -> 7 * UnitsPerHour + 5

AllDeparturesParse ==
    \A r \in RouteIds : contractor_configs[r].departure_time \in {T0600, T0630, T0700, T0701}

TimesOf(cfg) ==
    compute_route_times(cfg.parking_location, cfg.loading_location, cfg.dumping_location,
                        empty_speed, loaded_speed, lookup)

NoRouteTimesRaise == \A r \in RouteIds : ~TimesOf(contractor_configs[r]).raised

\* the event of truck i (from 0) of a route leaving at hour
EventOf(cfg, hour, i) ==
    <<hour + TimesOf(cfg).travel_time + i * truck_spacing, TimesOf(cfg).service_time>>

\* <<route, truck>> pairs of the routes to simulate that dump at sp
TrucksAt(sp) ==
    {p \in RouteIds \X (0..MaxTrucks) :
        /\ ToSimulate(contractor_configs[p[1]])
        /\ contractor_configs[p[1]].dumping_location = sp
        /\ p[2] < contractor_configs[p[1]].number_of_trucks}

CountIn(list, e) == Cardinality({k \in 1..Len(list) : list[k] = e})

\* C13: build_arrival_events returns, for each dump sub-point, a list sorted ascending
\* by arrival time holding exactly one event per truck of every eligible route dumping
\* there (length = sum of their truck counts), truck i having arrival = departure
\* hour + travel time + i x spacing and the route's service time; the keys are the
\* exact sub-point names, never the zone.
C13_OneEventPerTruck ==
    (Built /\ AllDeparturesParse /\ NoRouteTimesRaise) =>
        /\ DOMAIN arrival_events =
               {sp \in LeafSubPoints : TrucksAt(sp) # {}}
        /\ \A sp \in DOMAIN arrival_events :
              LET list == arrival_events[sp]
                  expected == {EventOf(contractor_configs[p[1]],
                                       HourOf(contractor_configs[p[1]].departure_time),
                                       p[2]) : p \in TrucksAt(sp)}
              IN  /\ IsSorted(list)
                  /\ Len(list) = Cardinality(TrucksAt(sp))
                  /\ \A e \in expected \cup {list[k] : k \in 1..Len(list)} :
                        CountIn(list, e) =
                            Cardinality({p \in TrucksAt(sp) :
                                EventOf(contractor_configs[p[1]],
                                        HourOf(contractor_configs[p[1]].departure_time),
                                        p[2]) = e})

\* two routes at one sub-point, leaving a minute apart, their trucks interleaved
C13_Witness ==
    /\ Built
    /\ Len(contractor_configs) = 2
    /\ contractor_configs[1].departure_time = T0700
    /\ contractor_configs[2].departure_time = T0701
    /\ truck_spacing = DefaultSpacing
    /\ lookup = NoLookup
    /\ SubA34 \in DOMAIN arrival_events
    /\ Len(arrival_events[SubA34]) = 4
    /\ contractor_configs[1].number_of_trucks = 2

\* a route the builder is to leave out
LeftOut(cfg) ==
    \/ cfg.number_of_trucks <= 0
    \/ cfg.loading_location = ""
    \/ cfg.dumping_location = ""
    \/ cfg.dumping_location \notin LeafSubPoints

Without(cfgs, r) == SubSeq(cfgs, 1, r - 1) \o SubSeq(cfgs, r + 1, Len(cfgs))

\* C14: a route with no trucks (zero or fewer), without loading or dumping location,
\* or whose dumping location is no sub-point of either zone contributes no arrival
\* events and raises nothing; the events are those of the configuration without it.
C14_LeftOutRouteIsSilent ==
    Built =>
        /\ ~call_raised
        /\ \A r \in RouteIds :
              LeftOut(contractor_configs[r]) =>
                 /\ arrival_events =
                        build_arrival_events(Without(contractor_configs, r), empty_speed,
                                             loaded_speed, lookup, truck_spacing)
                 /\ Len(contractor_configs) = 1 => DOMAIN arrival_events = {}

\* a first route of two trucks that names the zone, before a route that is simulated
C14_Witness ==
    /\ Built
    /\ Len(contractor_configs) = 2
    /\ contractor_configs[1].dumping_location = KM0
    /\ contractor_configs[1].number_of_trucks = 2
    /\ contractor_configs[1].departure_time = T0700
    /\ DOMAIN arrival_events = {contractor_configs[2].dumping_location}

Unparsable == {NoColon, ThreeParts, HourNotNumeric, MinuteNotNumeric}

\* C15: a route whose departure_time is no H:MM string (no colon, too many parts, a
\* non-numeric hour or minute) is simulated as leaving at 7.0: it contributes its
\* number_of_trucks events, the first at 7.0 + travel time, and nothing is raised.
C15_UnparsableLeavesAtSeven ==
    (Built /\ NoRouteTimesRaise) =>
        /\ ~call_raised
        /\ \A r \in RouteIds :
              LET cfg == contractor_configs[r]
              IN  (ToSimulate(cfg) /\ cfg.departure_time \in Unparsable) =>
                     /\ cfg.dumping_location \in DOMAIN arrival_events
                     /\ \A i \in 0..(cfg.number_of_trucks - 1) :
                           CountIn(arrival_events[cfg.dumping_location],
                                   EventOf(cfg, 7 * UnitsPerHour, i)) >= 1

\* the part of C15 the code keeps: a string without colon or of three parts
UnparsableByPartCount ==
    (Built /\ NoRouteTimesRaise) =>
        \A r \in RouteIds :
            LET cfg == contractor_configs[r]
            IN  (ToSimulate(cfg) /\ cfg.departure_time \in {NoColon, ThreeParts}) =>
                   /\ cfg.dumping_location \in DOMAIN arrival_events
                   /\ \A i \in 0..(cfg.number_of_trucks - 1) :
                         CountIn(arrival_events[cfg.dumping_location],
                                 EventOf(cfg, 7 * UnitsPerHour, i)) >= 1

\* ------------------------------------------------------------------ claims: the server count

\* the number of lines a range string names: hi - lo + 1 and at least 1; 1 for the
\* strings that are no range
RangeSize(lines) ==
    CASE lines = <<"1", "-", "2">> -> 2
      [] lines = <<"3", "-", "4">> -> 2
      [] lines = <<"6", "5", "-", "6", "6">> -> 2
      [] lines = <<"3", "-", "3">> -> 1
      [] lines = <<"2", "-", "1">> -> 1
      [] OTHER -> 1

\* the sub-point records of the zone, or of the zone holding the sub-point, called name
SubPointsUnder(name) ==
    UNION {{dump_points[z].sub_points[k] : k \in 1..Len(dump_points[z].sub_points)} :
             z \in {y \in 1..Len(dump_points) : dump_points[y].zone = name}}

LeafRecord(name) ==
    CHOOSE sp \in UNION {SubPointsUnder(dump_points[z].zone) : z \in 1..Len(dump_points)} :
        sp.name = name

RECURSIVE SumRangeSizes(_)
SumRangeSizes(sps) ==
    IF sps = {} THEN 0
    ELSE LET sp == CHOOSE x \in sps : TRUE
         IN  RangeSize(sp.lines) + SumRangeSizes(sps \ {sp})

\* C16: get_server_count called with the name of a zone ('FENI KM 0', 'FENI KM 15')
\* returns the sum of the server counts of the zone's sub-points.
C16_ZoneCountIsSum ==
    (call_pc = "done" /\ call_fn = "get_server_count" /\ subpoint_name \in {KM0, KM15}) =>
        server_count = SumRangeSizes(SubPointsUnder(subpoint_name))

GetServerCountFallsBack ==
    (call_pc = "done" /\ call_fn = "get_server_count") =>
        /\ ~call_raised
        /\ server_count >= 1
        /\ subpoint_name \in LeafSubPoints =>
              server_count = RangeSize(LeafRecord(subpoint_name).lines)

\* ------------------------------------------------------------------ claims: the route times

TimesComputed == call_pc = "done" /\ call_fn = "compute_route_times"

\* a location name trimmed and upper-cased
Normalised(name) ==
    IF name \in {"TF", "tf", " TF "} THEN "TF"
    ELSE IF name \in {"CP4", "cp4"} THEN "CP4"
    ELSE name

\* the rows of the table stored under the query's key
KeyedRows ==
    {k \in 1..Len(lookup.rows) :
        /\ Normalised(lookup.rows[k].parking) = Normalised(route_key[1])
        /\ Normalised(lookup.rows[k].loading) = Normalised(route_key[2])
        /\ Normalised(lookup.rows[k].dump) = Normalised(route_key[3])}

\* the table keeps the last row written under a key
KeyedRow == lookup.rows[CHOOSE k \in KeyedRows : \A j \in KeyedRows : j <= k]

Stored(c) == c.kind = "num"

\* travel = pl x 25 / empty_speed + fixed + ld x 25 / loaded_speed, cleared of the
\* divisions
TravelIs(travel, pl_times_ref, fixed, ld_times_ref) ==
    (travel - fixed) * empty_speed * loaded_speed =
        pl_times_ref * loaded_speed + ld_times_ref * empty_speed

\* C18: compute_route_times, when the table has a row under the query's trimmed,
\* upper-cased (parking, loading, dump): travel_time = stored parking-to-loading time
\* x 25 / empty_speed + wait-for-loading + loading-spot + loading + stored
\* loaded-travel time x 25 / loaded_speed, service_time = dumping + dump-spotting (0
\* if absent); with no such row: travel_time = 40 / empty_speed + 0.10 + 0.02 + 0.25
\* + 40 / loaded_speed, service_time = 0.10; at both speeds 25 the speed-dependent
\* parts are the stored times.
C18_RouteTimeFormula ==
    TimesComputed =>
        IF lookup.present /\ KeyedRows # {}
        THEN LET row == KeyedRow
             IN  (/\ Stored(row.travel_parking_loading) /\ Stored(row.wait_loading)
                  /\ Stored(row.spot_loading) /\ Stored(row.loading_time)
                  /\ Stored(row.loaded_travel) /\ Stored(row.dumping)) =>
                    /\ ~call_raised
                    /\ TravelIs(route_times.travel_time,
                                row.travel_parking_loading.v * 25,
                                row.wait_loading.v + row.spot_loading.v + row.loading_time.v,
                                row.loaded_travel.v * 25)
                    /\ route_times.service_time =
                           row.dumping.v + (IF Stored(row.dump_spot) THEN row.dump_spot.v ELSE 0)
                    /\ (empty_speed = 25 /\ loaded_speed = 25) =>
                          route_times.travel_time =
                              row.travel_parking_loading.v + row.wait_loading.v
                              + row.spot_loading.v + row.loading_time.v
                              + row.loaded_travel.v
        ELSE /\ ~call_raised
             /\ TravelIs(route_times.travel_time, 40 * UnitsPerHour,
                         (UnitsPerHour \div 10) + (UnitsPerHour \div 50)
                         + (UnitsPerHour \div 4),
                         40 * UnitsPerHour)
             /\ route_times.service_time = UnitsPerHour \div 10

\* the query written " TF " / "cp4" finds the row stored as TF / CP4, at 50 km/h empty
C18_Witness ==
    /\ TimesComputed
    /\ route_key = <<" TF ", "cp4", SubA12>>
    /\ lookup.present
    /\ Len(lookup.rows) = 1
    /\ lookup.rows[1].parking = "TF"
    /\ \A f \in {"travel_parking_loading", "wait_loading", "spot_loading", "loading_time",
                 "loaded_travel", "dumping", "dump_spot"} : Stored(lookup.rows[1][f])
    /\ empty_speed = 50
    /\ loaded_speed = 25
    /\ route_times.travel_time = 25 + 20 + 4 + 60 + 100
    /\ route_times.service_time = 22

\* C19: compute_route_times never raises on missing data (no lookup, no matching
\* row, a NaN cell, a column absent from the matched row) and, for positive speeds
\* and non-negative stored values, returns two non-negative numbers.
C19_NeverRaisesOnMissingData ==
    TimesComputed =>
        /\ ~call_raised
        /\ route_times.travel_time >= 0
        /\ route_times.service_time >= 0

\* the part of C19 that holds: every case but a matched row without loaded travel
NeverRaisesWithLoadedTravel ==
    (TimesComputed /\ (lookup.present /\ KeyedRows # {} => KeyedRow.loaded_travel.kind # "absent")) =>
        /\ ~call_raised
        /\ route_times.travel_time >= 0
        /\ route_times.service_time >= 0

\* ------------------------------------------------------------------ claims: the sequential search

RealRunning == {"next_route", "candidates"}

ZoneTotals(results) ==
    SumInt([z \in RealZones |-> results[z].total_wait_time], RealZones)

\* C20: RealOptimizer.optimize_departure_times never makes the result worse: the
\* running best total wait never increases while routes are processed, the total
\* wait over the dump zones of the final configuration is at most the baseline
\* total, and a route's time is changed only by a candidate whose total is strictly
\* lower than the best so far.
C20_SearchNeverWorsens ==
    [][/\ (r_pc \in RealRunning /\ r_pc' \in RealRunning \cup {"done", "raised"}) =>
              /\ r_best_total_wait' <= r_best_total_wait
              /\ r_best_total_wait' <= ZoneTotals(r_baseline_results')
       /\ (r_pc \in RealRunning /\ r_best_config' # r_best_config) =>
              /\ r_best_total_wait' < r_best_total_wait
              /\ r_best_total_wait' =
                     ZoneTotals(simulate_current_system(r_best_config', r_route_data))
       /\ (r_pc # r_pc' /\ r_pc' \in {"done", "raised"}) =>
              ZoneTotals(r_final_results') <= ZoneTotals(r_baseline_results')]_vars

\* a search that ended with a route moved and the total wait lowered: 0.558 h of
\* waiting (three and four trucks at 7:00) cut to 0.126 h
C20_Witness ==
    /\ r_pc = "done"
    /\ Len(r_optimization_log) = 2
    /\ r_optimization_log[1].changed
    /\ r_contractor_configs[1].number_of_trucks = 3
    /\ r_contractor_configs[2].number_of_trucks = 4
    /\ ZoneTotals(r_baseline_results) = 1674
    /\ ZoneTotals(r_final_results) = 378

\* ------------------------------------------------------------------ claims: the queue, its discipline

\* C21: idempotence: two calls of multi_server_queue with the same sorted list and
\* server count return the same (average wait, end time); a call does not modify its
\* input list, and each call starts from fresh locals, so nothing a call leaves
\* behind influences a later one.
C21_Idempotent ==
    [][/\ arrivals' = arrivals
       /\ num_servers' = num_servers
       /\ (q_pc = "call" /\ q_pc' = "loop") =>
              /\ server_free_times' = [s \in 1..num_servers |-> 0]
              /\ total_wait' = 0
              /\ q_i' = 0
       /\ (q_pc # "done" /\ q_pc' = "done" /\ q_calls' >= 2) =>
              /\ avg_wait_minutes' = q_first'.avg_wait_minutes
              /\ end_time' = q_first'.end_time]_vars

\* a second call has returned for a list on which a truck waits
C21_Witness ==
    /\ q_pc = "done"
    /\ q_calls = 2
    /\ Len(arrivals) >= 2
    /\ total_wait > 0
    /\ avg_wait_minutes = q_first.avg_wait_minutes

\* C23: first come, first served: for a list sorted by arrival time the service start
\* times (arrival + wait) are non-decreasing in list order; no truck begins service
\* before a truck that arrived earlier.
C23_FirstComeFirstServed ==
    /\ Len(q_log) <= Len(arrivals)
    /\ \A i \in 1..Len(q_log) :
          /\ q_log[i].arrival_time = arrivals[i][1]
          /\ q_log[i].start_service = arrivals[i][1] + q_log[i].wait
    /\ \A i \in 1..Len(q_log) : \A j \in i..Len(q_log) :
          q_log[i].start_service <= q_log[j].start_service

\* three trucks served, the last arriving later than the first and after a wait
C23_Witness ==
    /\ q_pc = "done"
    /\ Len(q_log) = 3
    /\ q_log[1].arrival_time < q_log[3].arrival_time
    /\ q_log[3].wait > 0
    /\ q_log[2].start_service < q_log[3].start_service

\* C24: work conservation and exclusivity: a truck waits only if at its arrival every
\* server's free time is later than the arrival, and the service intervals
\* [start, start + service_time) given to one server never overlap.  The inline loop
\* of simulate_wait_times reaches the same free times and total wait on the same
\* events.
C24_WorkConservingExclusive ==
    /\ \A i \in 1..Len(q_log) :
          q_log[i].wait > 0 =>
              \A s \in 1..Len(q_log[i].free_before) :
                  q_log[i].free_before[s] > q_log[i].arrival_time
    /\ \A i \in 1..Len(q_log) : \A j \in (i + 1)..Len(q_log) :
          q_log[i].idx = q_log[j].idx =>
              q_log[j].start_service >= q_log[i].start_service + q_log[i].service_time
    /\ q_pc = "loop" =>
          LET inline == InlineRun(SubSeq(arrivals, 1, q_i), 1,
                                  [free |-> [s \in 1..num_servers |-> 0], total_wait |-> 0])
          IN  inline.free = server_free_times /\ inline.total_wait = total_wait

\* two servers, three trucks: one server takes two of them and a truck waits
C24_Witness ==
    /\ q_pc = "done"
    /\ num_servers = 2
    /\ Len(q_log) = 3
    /\ \E i \in 1..3 : q_log[i].wait > 0
    /\ \E i \in 1..3 : \E j \in 1..3 : i # j /\ q_log[i].idx = q_log[j].idx
    /\ \E i \in 1..3 : q_log[i].wait = 0 /\ q_log[i].idx = 2

\* ------------------------------------------------------------------ claims: the reported optimum

\* C22: the optimal departure time reported for a route is an element of
\* candidate_times whenever that list is non-empty (so the current time is reported
\* only if it is listed), and is the route's current time when the list is empty.
C22_OptimalIsCandidate ==
    \A k \in 1..Len(recommended) :
        /\ recommended[k].current = contractor_configs[k].departure_time
        /\ IF candidate_times = <<>>
           THEN recommended[k].optimal = recommended[k].current
           ELSE \E i \in 1..Len(candidate_times) :
                    candidate_times[i] = recommended[k].optimal

\* a route with trucks whose current time is not listed gets the listed time
C22_Witness ==
    /\ pc = "done"
    /\ candidate_times = <<T0630>>
    /\ Len(recommended) = 2
    /\ contractor_configs[1].number_of_trucks > 0
    /\ recommended[1].current = T0700
    /\ recommended[1].optimal = T0630

\* ------------------------------------------------------------------ claims: the combined result

\* the truck-weighted total of a pair of zone waits: average x trucks of the zone
WeightedTotal(waits, cfgs) ==
    RatAdd(RatMulInt(waits[KM0], TrucksZoneFrom(cfgs, 1, KM0)),
           RatMulInt(waits[KM15], TrucksZoneFrom(cfgs, 1, KM15)))

\* C26: optimisation improves or maintains the wait: the truck-weighted total of the
\* returned optimised zone waits (all recommendations applied at once) is at most the
\* truck-weighted total of the returned baseline zone waits.
C26_OptimisedNotWorse ==
    pc = "done" =>
        RatLe(WeightedTotal(optimised_waits, contractor_configs),
              WeightedTotal(baseline_waits, contractor_configs))

\* ------------------------------------------------------------------ claims: the per-truck average

\* the events simulate_wait_times simulates for a configuration
SimulatedEvents(cfgs) ==
    build_arrival_events(cfgs, empty_speed, loaded_speed, lookup, DefaultSpacing)

\* the sub-points of a zone that have simulated events
SimulatedSubPoints(cfgs, zone) ==
    {sp \in DOMAIN SimulatedEvents(cfgs) : get_main_feni_from_sub_point(sp) = zone}

\* the sum over the trucks simulated at a sub-point of their individual waits (units)
IndividualWaitSum(arr, servers) ==
    InlineRun(arr, 1, [free |-> [s \in 1..servers |-> 0], total_wait |-> 0]).total_wait

\* sum of the individual waits of all trucks simulated in the zone, over their number
\* (minutes); 0 when no truck is simulated there
PerTruckAverage(cfgs, zone) ==
    LET events == SimulatedEvents(cfgs)
        sps == SimulatedSubPoints(cfgs, zone)
        waits == SumInt([sp \in sps |->
                     IndividualWaitSum(events[sp],
                                       _num_servers_for(sp, FENI_DUMP_POINTS).count)], sps)
        trucks == SumInt([sp \in sps |-> Len(events[sp])], sps)
    IN  IF trucks = 0 THEN RatZero ELSE AvgMinutes(waits, trucks)

\* C27: the zone average of simulate_wait_times is the per-truck average wait: for
\* every configuration with non-negative truck counts, routes the event builder skips
\* included, it equals the sum of the individual waits of the trucks simulated in the
\* zone divided by their number.
C27_ZoneAverageIsPerTruck ==
    /\ pc # "start" =>
          \A zone \in {KM0, KM15} :
              baseline_waits[zone] = PerTruckAverage(contractor_configs, zone)
    /\ pc = "done" =>
          \A zone \in {KM0, KM15} :
              optimised_waits[zone] = PerTruckAverage(updated_config, zone)

\* each sub-point's weight is the number of arrival events simulated at it
WeightIsSimulatedTrucks ==
    pc # "start" =>
        \A sp \in DOMAIN SimulatedEvents(contractor_configs) :
            SubpointWeight(contractor_configs, sp) = Len(SimulatedEvents(contractor_configs)[sp])

\* ------------------------------------------------------------------ claims: the frame of one route's change

\* events[sp] of a configuration, and whether sp is a key at all
EventsAt(cfgs, sp) ==
    LET events == SimulatedEvents(cfgs)
    IN  IF sp \in DOMAIN events THEN [present |-> TRUE, list |-> events[sp]]
        ELSE [present |-> FALSE, list |-> <<>>]

\* subpoint_waits.get(sp) of a configuration
WaitAt(cfgs, sp) ==
    LET waits == subpoint_waits(SimulatedEvents(cfgs))
    IN  IF sp \in DOMAIN waits THEN [present |-> TRUE, wait |-> waits[sp]]
        ELSE [present |-> FALSE, wait |-> RatZero]

\* the configuration evaluate_departure_for_route simulated for the last candidate
LastTested ==
    SetDeparture(contractor_configs, contractor_configs[ri].contractor,
                 contractor_configs[ri].parking_location, candidate_times[ci])

\* C25: frame: changing only one route's departure time changes the arrival events
\* and the average wait of that route's own dump sub-point only; every other
\* sub-point keeps its event list and its average wait, and the other macro zone
\* keeps its average.
C25_OnlyOwnSubPointChanges ==
    (pc = "candidates" /\ ci >= 1) =>
        LET own == contractor_configs[ri].dumping_location
        IN  /\ \A sp \in LeafSubPoints \ {own} :
                  /\ EventsAt(LastTested, sp) = EventsAt(contractor_configs, sp)
                  /\ WaitAt(LastTested, sp) = WaitAt(contractor_configs, sp)
            /\ \A zone \in {KM0, KM15} \ {get_main_feni_from_sub_point(own)} :
                  simulate_wait_times(LastTested, empty_speed, loaded_speed, lookup,
                                      DefaultSpacing)[zone]
                  = simulate_wait_times(contractor_configs, empty_speed, loaded_speed,
                                        lookup, DefaultSpacing)[zone]

\* two routes with trucks in different zones; the tested time moved the events of the
\* first route's sub-point while the second route's sub-point has waiting trucks
C25_Witness ==
    /\ pc = "candidates"
    /\ ci >= 1
    /\ ri = 1
    /\ Len(contractor_configs) = 2
    /\ contractor_configs[1].dumping_location = SubA12
    /\ contractor_configs[2].dumping_location = SubU1
    /\ EventsAt(LastTested, SubA12) # EventsAt(contractor_configs, SubA12)
    /\ EventsAt(contractor_configs, SubA12).present
    /\ WaitAt(contractor_configs, SubU1).present
    /\ RatLt(RatZero, WaitAt(contractor_configs, SubU1).wait)

\* ------------------------------------------------------------------ claims: the listing order

Simulated == call_pc = "done" /\ call_fn = "simulate_wait_times"

\* the same routes listed in the opposite order
Reversed(cfgs) == [r \in 1..Len(cfgs) |-> cfgs[Len(cfgs) + 1 - r]]

\* C28: the zone waits of simulate_wait_times depend only on the set of routes and
\* their attributes, not on the order in which contractors and routes are listed,
\* also when trucks of different routes with different service times arrive at the
\* same sub-point at the same time.
C28_OrderIndependent ==
    Simulated =>
        zone_waits = simulate_wait_times(Reversed(contractor_configs), empty_speed,
                                         loaded_speed, lookup, truck_spacing)

\* ------------------------------------------------------------------ claims: the two sub-point simulations

\* every range of the hierarchy parses
RangesParse(dp) ==
    \A z \in 1..Len(dp) : \A k \in 1..Len(dp[z].sub_points) :
        ~LineCount(dp[z].sub_points[k].lines).raised

\* the inline averages of simulate_wait_times equal what simulate_queues returns for
\* the same events
InlineEqualsDelegated ==
    /\ Simulated => subpoint_wait_map = simulate_queues(arrival_events, dump_points)
    /\ (call_pc = "done" /\ call_fn = "simulate_queues") =>
           queue_results = subpoint_waits(arrival_events)

HasKeptRoute ==
    \E r \in 1..Len(r_contractor_configs) : RealKept(r_contractor_configs[r])

\* C30: run_real_optimization completes with success = True and no error for every
\* configuration that has at least one route with trucks mapped to a dump zone,
\* configurations whose baseline total wait is 0 included, so that the caller never
\* falls back to create_fallback_results.
C30_RealOptimizationSucceeds ==
    /\ (r_result.returned /\ HasKeptRoute) => (r_result.success /\ r_result.error = "")
    /\ HasKeptRoute => r_caller # "fallback"

====
